---- MODULE Spec2Model ----
(***************************************************************************)
(* A model of the colour engine of epaper-palette-dither: nearest palette  *)
(* colour resolution, Floyd-Steinberg error diffusion and the gamut        *)
(* mappers.                                                                *)
(*                                                                         *)
(* Numbers.  The program computes in float64; the model computes in        *)
(* integers with a stated scale per quantity:                              *)
(*   - working-buffer values and residuals: units of 1/SC of a channel     *)
(*     unit (SC a power of 16, so the weights k/16 are exact for chains    *)
(*     of up to four diffusion hops, as they are in float64);              *)
(*   - linear RGB: 1/100000; XYZ ratios t: 1/1000000; f(t): 1/100000;      *)
(*     Lab coordinates and Lab distances: 1/100;                           *)
(*   - BT.709 and XYZ matrix coefficients: 1/10000;                        *)
(*   - csf_chroma_weight: hundredths; penalties: whole Lab units;          *)
(*   - hue, saturation, lightness and the points of the tetrahedron: see   *)
(*     the gamut mapping sections.                                         *)
(* Divisions round toward minus infinity where float64 rounds to nearest.  *)
(***************************************************************************)
EXTENDS Integers, Sequences, FiniteSets, TLC

VARIABLES
    pc,         \* where the call under way stands ("idle" before any call)
    cfg,        \* arguments of the dither call under way
    rgb_array,  \* the input image, pixel index y*w+x -> <<r,g,b>>
    work,       \* the float working buffer of the run with cfg.red_penalty
    work2,      \* the working buffer of a second run, with cfg.red_penalty2
    pos,        \* index y*w+x of the next pixel of the scan
    result,     \* the uint8 array returned by the first run (<<>> before)
    result2,    \* the uint8 array returned by the second run
    nargs,      \* arguments of the find_nearest_color(_index) call
    nidx,       \* the index find_nearest_color_index returned
    ncolor,     \* the colour find_nearest_color returned
    gimg,       \* the caller's image handed to a gamut mapper (one pixel)
    gcall,      \* the gamut mapper called and its arguments
    gout,       \* the pixel of the array the gamut mapper returned
    gerr,       \* the exception the gamut mapper raised ("none" if none)
    converter,  \* the fields of the ImageConverter
    cset,       \* the latest property assignment: its name and its value
    nsets,      \* the number of property assignments made so far
    ccall,      \* the entry point a thread is running, and its arguments
    cimg,       \* the image held by the running entry point's local variable
    cstages,    \* the stages run so far: each with its input and what it read
    cprog,      \* the reports made to the progress callback so far
    study,      \* the Optuna study of OptimizerService.optimize
    cancelled,  \* the cancelled callback: whether given, and its answers
    olog,       \* what optimize has done so far, in order
    oresult,    \* the OptimizeResult optimize returned
    lchannel,   \* the channel handed to _clahe_channel
    lcall,      \* the other arguments of the _clahe_channel call
    lresult,    \* the channel _clahe_channel returned
    window      \* the fields of the MainWindow, its buttons and its running workers

ditherVars == <<cfg, rgb_array, work, work2, pos, result, result2>>
nearestVars == <<nargs, nidx, ncolor>>
gamutVars == <<gimg, gcall, gout, gerr>>
converterVars == <<converter, cset, nsets, ccall, cimg, cstages, cprog>>
optimizerVars == <<study, cancelled, olog, oresult>>
claheVars == <<lchannel, lcall, lresult>>
windowVars == <<window>>
laterVars == <<converterVars, optimizerVars, claheVars, windowVars>>

vars == <<pc, ditherVars, nearestVars, gamutVars, laterVars>>

(***************************************************************************)
(* Bounds of the model.                                                    *)
(***************************************************************************)
MaxW == 2
MaxH == 2
MaxDist == 2
\* the most pixels of an image given to FloydSteinbergDither.dither, whose
\* scan branches at every pixel over the ciede2000 tables
MaxFsPixels == 3

(***************************************************************************)
(* Arithmetic helpers.                                                     *)
(***************************************************************************)
Min(a, b) == IF a <= b THEN a ELSE b
Max(a, b) == IF a >= b THEN a ELSE b
Abs(a) == IF a >= 0 THEN a ELSE -a

\* floor(a*b/c) for c > 0 without forming a*b (|c*b| must fit in 32 bits).
MulDiv(a, b, c) == (a \div c) * b + ((a % c) * b) \div c

RECURSIVE ISqrtBetween(_, _, _)
ISqrtBetween(n, lo, hi) ==
    IF lo >= hi THEN lo
    ELSE LET mid == (lo + hi + 1) \div 2
         IN IF mid * mid <= n THEN ISqrtBetween(n, mid, hi)
                              ELSE ISqrtBetween(n, lo, mid - 1)

\* floor(sqrt(n)), 0 <= n < 2^31
ISqrt(n) == ISqrtBetween(n, 0, 46340)

RECURSIVE ICbrtBetween(_, _, _)
ICbrtBetween(n, lo, hi) ==
    IF lo >= hi THEN lo
    ELSE LET mid == (lo + hi + 1) \div 2
         IN IF mid * mid * mid <= n THEN ICbrtBetween(n, mid, hi)
                                    ELSE ICbrtBetween(n, lo, mid - 1)

\* floor(cbrt(n)), 0 <= n < 2^31
ICbrt(n) == ICbrtBetween(n, 0, 1290)

(***************************************************************************)
(* domain/color.py: the palette.                                           *)
(***************************************************************************)
EINK_WHITE == <<255, 255, 255>>
EINK_BLACK == <<0, 0, 0>>
EINK_RED == <<200, 0, 0>>
EINK_YELLOW == <<255, 255, 0>>
EINK_PALETTE == <<EINK_WHITE, EINK_BLACK, EINK_RED, EINK_YELLOW>>
EINK_PALETTE_PERCEIVED == << <<177, 175, 157>>, <<46, 38, 43>>, <<177, 51, 37>>, <<198, 166, 26>> >>

\* "reddish" and "yellowish", tested on the output palette colour
IsReddish(c) == c[1] > 150 /\ c[2] < 50 /\ c[3] < 50
IsYellowish(c) == c[1] > 200 /\ c[2] > 200 /\ c[3] < 50

(***************************************************************************)
(* dither_service.py: sRGB -> Lab, inline.                                 *)
(***************************************************************************)
\* _SRGB_TO_LINEAR_LUT[i], scaled by 100000 (entry i is at position i+1)
SRGB_TO_LINEAR_LUT == <<
       0, 30, 61, 91, 121, 152, 182, 212, 243, 273, 304, 335, 368, 402, 439, 478,
       518, 561, 605, 651, 700, 750, 802, 857, 913, 972, 1033, 1096, 1161, 1229, 1298, 1370,
       1444, 1521, 1600, 1681, 1764, 1850, 1938, 2029, 2122, 2217, 2315, 2416, 2519, 2624, 2732, 2843,
       2956, 3071, 3190, 3310, 3434, 3560, 3689, 3820, 3955, 4092, 4231, 4374, 4519, 4667, 4817, 4971,
       5127, 5286, 5448, 5613, 5781, 5951, 6125, 6301, 6480, 6663, 6848, 7036, 7227, 7421, 7619, 7819,
       8022, 8228, 8438, 8650, 8866, 9084, 9306, 9531, 9759, 9990, 10224, 10462, 10702, 10946, 11193, 11444,
       11697, 11954, 12214, 12477, 12744, 13014, 13287, 13563, 13843, 14126, 14413, 14703, 14996, 15293, 15593, 15896,
       16203, 16513, 16827, 17144, 17465, 17789, 18116, 18447, 18782, 19120, 19462, 19807, 20156, 20508, 20864, 21223,
       21586, 21953, 22323, 22697, 23074, 23455, 23840, 24228, 24620, 25016, 25415, 25818, 26225, 26636, 27050, 27468,
       27889, 28315, 28744, 29177, 29614, 30054, 30499, 30947, 31399, 31855, 32314, 32778, 33245, 33716, 34191, 34670,
       35153, 35640, 36131, 36625, 37124, 37626, 38133, 38643, 39157, 39676, 40198, 40724, 41254, 41789, 42327, 42869,
       43415, 43966, 44520, 45079, 45641, 46208, 46778, 47353, 47932, 48515, 49102, 49693, 50289, 50888, 51492, 52100,
       52712, 53328, 53948, 54572, 55201, 55834, 56471, 57112, 57758, 58408, 59062, 59720, 60383, 61050, 61721, 62396,
       63076, 63760, 64448, 65141, 65837, 66539, 67244, 67954, 68669, 69387, 70110, 70838, 71569, 72306, 73046, 73791,
       74540, 75294, 76052, 76815, 77582, 78354, 79130, 79910, 80695, 81485, 82279, 83077, 83880, 84687, 85499, 86316,
       87137, 87962, 88792, 89627, 90466, 91310, 92158, 93011, 93869, 94731, 95597, 96469, 97345, 98225, 99110, 100000 >>

\* _LAB_DELTA ** 3 = (6/29)^3 = 0.008856, scaled by 1000000
LAB_DELTA_SQ3 == 8856

\* f(t) of the Lab conversion: t scaled by 1000000, result scaled by 100000.
\* t > delta^3: t ** (1/3), as the floor cube root to three digits plus one
\* Newton correction; otherwise t / (3 delta^2) + 4/29 = 7.787 t + 0.13793.
LabF(t) ==
    IF t > LAB_DELTA_SQ3
    THEN LET n == t * 1000
             f0 == ICbrt(n)
         IN f0 * 100 + ((n - f0 * f0 * f0) * 100) \div (3 * f0 * f0)
    ELSE (t * 7787) \div 10000 + 13793

\* _rgb_to_lab_inline(r, g, b): <<L, a, b>> scaled by 100
rgb_to_lab_inline(r, g, b) ==
    LET r_lin == SRGB_TO_LINEAR_LUT[r + 1]
        g_lin == SRGB_TO_LINEAR_LUT[g + 1]
        b_lin == SRGB_TO_LINEAR_LUT[b + 1]
        \* sums scaled by 10^9, then * (1 / white point), scaled by 10^6
        xr == MulDiv((4125 * r_lin + 3576 * g_lin + 1804 * b_lin) \div 1000,
                     10521, 10000)
        yr == (2127 * r_lin + 7152 * g_lin + 722 * b_lin) \div 1000
        zr == MulDiv((193 * r_lin + 1192 * g_lin + 9503 * b_lin) \div 1000,
                     9184, 10000)
        fx == LabF(xr)
        fy == LabF(yr)
        fz == LabF(zr)
    IN <<(116 * fy - 1600000) \div 1000, (fx - fy) \div 2, (fy - fz) \div 5>>

RgbToLab(c) == rgb_to_lab_inline(c[1], c[2], c[3])

\* squared Lab-Euclidean distance of two Lab triples (scale 100^2)
LabDistSq(p, q) ==
    (p[1] - q[1]) * (p[1] - q[1]) + (p[2] - q[2]) * (p[2] - q[2])
        + (p[3] - q[3]) * (p[3] - q[3])

(***************************************************************************)
(* domain/color.py: find_nearest_color_index / find_nearest_color.         *)
(*                                                                         *)
(* ciede2000 is not computed: the distances of the colour to the entries   *)
(* of the distance palette are a table `de` of arbitrary values            *)
(* 0..MaxDist, subject to what the code guarantees of any two calls:       *)
(* equal arguments give equal results, and ciede2000(x, x) = 0 (every      *)
(* delta is 0 and the result is sqrt(0)).  Distances are counted in whole  *)
(* units and brightness in halves (brightness2 = 2 * brightness), so the   *)
(* adjusted distance is kept doubled.                                      *)
(***************************************************************************)
\* float("inf")
Inf == 2147483647

\* perceived_palette = None
NoPalette == [given |-> FALSE, colors |-> <<>>]
Perceived(colors) == [given |-> TRUE, colors |-> colors]

\* dist_palette = perceived_palette if perceived_palette is not None else palette
DistPalette(palette, perceived_palette) ==
    IF perceived_palette.given THEN perceived_palette.colors ELSE palette

\* the tables ciede2000(rgb_to_lab(color), rgb_to_lab(dp)) can be, dp in dist_palette
Ciede2000Tables(color, dist_palette) ==
    { de \in [1..Len(dist_palette) -> 0..MaxDist] :
        /\ \A i \in 1..Len(dist_palette) : dist_palette[i] = color => de[i] = 0
        /\ \A i, j \in 1..Len(dist_palette) :
               dist_palette[i] = dist_palette[j] => de[i] = de[j] }

\* dist after the two penalty tests of the loop body (doubled), entry i (1-based)
AdjustedDist(palette, red_penalty, yellow_penalty, brightness2, de, i) ==
    2 * de[i]
      + (IF red_penalty > 0 /\ IsReddish(palette[i])
         THEN red_penalty * brightness2 ELSE 0)
      + (IF yellow_penalty > 0 /\ IsYellowish(palette[i])
         THEN yellow_penalty * (2 - brightness2) ELSE 0)

\* the mutant of the loop test: a later entry of equal distance replaces an earlier one
BestUpdateOnTie(dist, best_dist) == dist <= best_dist

\* if dist < best_dist
BestUpdate(dist, best_dist) == dist < best_dist

\* the loop `for i, ... : if dist < best_dist: best_dist = dist; best_idx = i`
\* over entries i..n (1-based) of the adjusted distances adj; the index
\* returned is 0-based, as in the code.
RECURSIVE NearestScan(_, _, _, _, _)
NearestScan(adj, n, i, best_idx, best_dist) ==
    IF i > n THEN best_idx
    ELSE IF BestUpdate(adj[i], best_dist)
         THEN NearestScan(adj, n, i + 1, i - 1, adj[i])
         ELSE NearestScan(adj, n, i + 1, best_idx, best_dist)

\* the mutant of the search: the reddish and yellowish tests look at the
\* palette the distance is measured to
FindNearestTestingDistPalette(palette, red_penalty, yellow_penalty, brightness2, perceived_palette, de) ==
    LET dist_palette == DistPalette(palette, perceived_palette)
        n == Min(Len(palette), Len(dist_palette))
        adj == [i \in 1..n |->
                  AdjustedDist(dist_palette, red_penalty, yellow_penalty,
                               brightness2, de, i)]
    IN NearestScan(adj, n, 1, 0, Inf)

find_nearest_color_index(palette, red_penalty, yellow_penalty, brightness2, perceived_palette, de) ==
    LET dist_palette == DistPalette(palette, perceived_palette)
        \* zip(palette, dist_palette) stops at the shorter of the two
        n == Min(Len(palette), Len(dist_palette))
        adj == [i \in 1..n |->
                  AdjustedDist(palette, red_penalty, yellow_penalty,
                               brightness2, de, i)]
    IN NearestScan(adj, n, 1, 0, Inf)

\* find_nearest_color: palette[idx]; "IndexError" when idx is no index of palette
find_nearest_color(palette, red_penalty, yellow_penalty, brightness2, perceived_palette, de) ==
    LET idx == find_nearest_color_index(palette, red_penalty, yellow_penalty,
                                        brightness2, perceived_palette, de)
    IN IF idx + 1 \in 1..Len(palette) THEN palette[idx + 1] ELSE "IndexError"

(***************************************************************************)
(* infrastructure/dither_lut.py: build_lut.                                *)
(***************************************************************************)
LUT_STEP == 4

\* np.argmin(dist_sq): the first index (0-based) of the least value
RECURSIVE ArgMinScan(_, _, _, _, _)
ArgMinScan(d, n, i, best_idx, best) ==
    IF i > n THEN best_idx
    ELSE IF d[i] < best THEN ArgMinScan(d, n, i + 1, i - 1, d[i])
         ELSE ArgMinScan(d, n, i + 1, best_idx, best)

\* the mutant of the table: the bucket index is taken for the colour itself
LutEntryUnscaled(palette, qr, qg, qb) ==
    LET lab == rgb_to_lab_inline(qr, qg, qb)
        d == [i \in 1..Len(palette) |-> LabDistSq(lab, RgbToLab(palette[i]))]
    IN ArgMinScan(d, Len(palette), 1, 0, Inf)

\* build_lut(palette)[qr, qg, qb]: the Lab-Euclidean nearest palette index of
\* the centre of the bucket
LutEntry(palette, qr, qg, qb) ==
    LET half == LUT_STEP \div 2
        lab == rgb_to_lab_inline(qr * LUT_STEP + half, qg * LUT_STEP + half,
                                 qb * LUT_STEP + half)
        d == [i \in 1..Len(palette) |-> LabDistSq(lab, RgbToLab(palette[i]))]
    IN ArgMinScan(d, Len(palette), 1, 0, Inf)

(***************************************************************************)
(* application/dither_service.py: DitherService.dither_array_fast, and     *)
(* domain/dithering.py: FloydSteinbergDither.dither.                       *)
(***************************************************************************)
\* work = rgb_array.astype(np.float64): one channel unit is SC model units
SC == 65536

\* round() that sends a tie upward
PyRoundHalfUp(v) == (v + (SC \div 2)) \div SC

\* Python's round() of a float: to the nearest integer, a tie to the even one
PyRound(v) ==
    LET q == v \div SC
        r == v % SC
    IN IF 2 * r < SC THEN q
       ELSE IF 2 * r > SC THEN q + 1
       ELSE IF q % 2 = 0 THEN q ELSE q + 1

\* _max(0, _min(255, _round(old))) and _clamp(round(old))
ClampRound(v) == Max(0, Min(255, PyRound(v)))

\* the mutant of the penalty branch: the red penalty is taken off the distance
PenaltyNearestSubtracting(palette, ri, gi, bi, red_penalty, yellow_penalty) ==
    LET bnum == Max(0, Min(2550000, 2126 * ri + 7152 * gi + 722 * bi))
        lab == rgb_to_lab_inline(ri, gi, bi)
        dist == [i \in 1..Len(palette) |->
                   ISqrt(LabDistSq(lab, RgbToLab(palette[i])))
                     - (IF IsReddish(palette[i])
                        THEN (red_penalty * bnum) \div 25500 ELSE 0)
                     + (IF IsYellowish(palette[i])
                        THEN (yellow_penalty * (2550000 - bnum)) \div 25500
                        ELSE 0)]
    IN NearestScan(dist, Len(palette), 1, 0, Inf)

\* the penalty branch of the pixel loop: Lab-Euclidean distance plus penalties
\* (scale 100), the first least entry wins; 0-based index
PenaltyNearest(palette, ri, gi, bi, red_penalty, yellow_penalty) ==
    LET \* brightness = (0.2126 ri + 0.7152 gi + 0.0722 bi) / 255, times 2550000
        bnum == Max(0, Min(2550000, 2126 * ri + 7152 * gi + 722 * bi))
        lab == rgb_to_lab_inline(ri, gi, bi)
        dist == [i \in 1..Len(palette) |->
                   ISqrt(LabDistSq(lab, RgbToLab(palette[i])))
                     + (IF IsReddish(palette[i])
                        THEN (red_penalty * bnum) \div 25500 ELSE 0)
                     + (IF IsYellowish(palette[i])
                        THEN (yellow_penalty * (2550000 - bnum)) \div 25500
                        ELSE 0)]
    IN NearestScan(dist, Len(palette), 1, 0, Inf)

\* the index chosen for the clamped pixel <<ri, gi, bi>> in dither_array_fast
FastNearest(palette, ri, gi, bi, red_penalty, yellow_penalty) ==
    IF red_penalty > 0 \/ yellow_penalty > 0
    THEN PenaltyNearest(palette, ri, gi, bi, red_penalty, yellow_penalty)
    ELSE LutEntry(palette, ri \div LUT_STEP, gi \div LUT_STEP, bi \div LUT_STEP)

\* the mutant of the clamp: the residual is never cut
ClampErrOff(e, ec) == e

\* the mutant of the clamp: only a residual above ec is cut
ClampErrUpperOnly(e, ec) ==
    IF ec > 0 THEN [c \in 1..3 |-> Min(ec * SC, e[c])] ELSE e

\* Error Clamping: if ec > 0, each channel into [-ec, ec]
ClampErr(e, ec) ==
    IF ec > 0 THEN [c \in 1..3 |-> Max(-ec * SC, Min(ec * SC, e[c]))] ELSE e

\* the mutant of the CSF weighting: the residual goes through as it is
CsfWeightSkipped(e, csf_w) == e

\* CSF weighting of a residual: opponent decomposition, chroma * csf_w,
\* recomposition (csf_w in hundredths; skipped when csf_chroma_weight >= 1.0)
CsfWeight(e, csf_w) ==
    IF csf_w < 100
    THEN LET err_lum == MulDiv(e[1], 2126, 10000) + MulDiv(e[2], 7152, 10000)
                          + MulDiv(e[3], 722, 10000)
             err_rg == MulDiv(e[1] - e[2], csf_w, 100)
             err_by == MulDiv((e[1] + e[2]) \div 2 - e[3], csf_w, 100)
         IN << err_lum + MulDiv(err_rg, 7513, 10000) + MulDiv(err_by, 722, 10000),
               err_lum + MulDiv(err_rg, -2487, 10000) + MulDiv(err_by, 722, 10000),
               err_lum + MulDiv(err_rg, 2513, 10000) + MulDiv(err_by, -9278, 10000) >>
    ELSE e

\* err * 0.4375, 0.1875, 0.3125, 0.0625
Share(e, sixteenths) == [c \in 1..3 |-> (e[c] * sixteenths) \div 16]

Add3(a, b) == [c \in 1..3 |-> a[c] + b[c]]

\* the mutant of the diffusion: the 7/16 share goes to the left neighbour,
\* a pixel the scan has already written
DiffuseToLeft(wk, w, h, k, new, err) ==
    LET x == k % w
        y == k \div w
    IN [j \in DOMAIN wk |->
          IF j = k THEN [c \in 1..3 |-> new[c] * SC]
          ELSE IF j = k - 1 /\ x - 1 >= 0 THEN Add3(wk[j], Share(err, 7))
          ELSE IF j = k + w - 1 /\ y + 1 < h /\ x - 1 >= 0
               THEN Add3(wk[j], Share(err, 3))
          ELSE IF j = k + w /\ y + 1 < h THEN Add3(wk[j], Share(err, 5))
          ELSE IF j = k + w + 1 /\ y + 1 < h /\ x + 1 < w
               THEN Add3(wk[j], Share(err, 1))
          ELSE wk[j]]

\* the mutant of the diffusion: x is not tested against the image's sides, so
\* that a share meant for a pixel beyond a side lands on the adjacent row
DiffuseWrapping(wk, w, h, k, new, err) ==
    [j \in DOMAIN wk |->
        IF j = k THEN [c \in 1..3 |-> new[c] * SC]
        ELSE IF j = k + 1 THEN Add3(wk[j], Share(err, 7))
        ELSE IF j = k + w - 1 THEN Add3(wk[j], Share(err, 3))
        ELSE IF j = k + w THEN Add3(wk[j], Share(err, 5))
        ELSE IF j = k + w + 1 THEN Add3(wk[j], Share(err, 1))
        ELSE wk[j]]

\* the working buffer after pixel k = y*w+x got the colour new and its
\* residual err was diffused to the neighbours inside the image
Diffuse(wk, w, h, k, new, err) ==
    LET x == k % w
        y == k \div w
    IN [j \in DOMAIN wk |->
          IF j = k THEN [c \in 1..3 |-> new[c] * SC]
          ELSE IF j = k + 1 /\ x + 1 < w THEN Add3(wk[j], Share(err, 7))
          ELSE IF j = k + w - 1 /\ y + 1 < h /\ x - 1 >= 0
               THEN Add3(wk[j], Share(err, 3))
          ELSE IF j = k + w /\ y + 1 < h THEN Add3(wk[j], Share(err, 5))
          ELSE IF j = k + w + 1 /\ y + 1 < h /\ x + 1 < w
               THEN Add3(wk[j], Share(err, 1))
          ELSE wk[j]]

\* one iteration of the x/y loop of dither_array_fast at pixel k
FastPixel(wk, c, red_penalty, k) ==
    LET old == wk[k]
        ri == ClampRound(old[1])
        gi == ClampRound(old[2])
        bi == ClampRound(old[3])
        idx == FastNearest(c.palette, ri, gi, bi, red_penalty, c.yellow_penalty)
        new == c.palette[idx + 1]
        err == [ch \in 1..3 |-> old[ch] - new[ch] * SC]
    IN Diffuse(wk, c.w, c.h, k, new,
               CsfWeight(ClampErr(err, c.error_clamp), c.csf_chroma_weight))

\* one iteration of the loop of FloydSteinbergDither.dither at pixel k, the
\* ciede2000 table of the clamped pixel being de
FloydSteinbergPixel(wk, c, k, de) ==
    LET old == wk[k]
        idx == find_nearest_color_index(c.palette, 0, 0, 0, NoPalette, de)
        new == c.palette[idx + 1]
        err == [ch \in 1..3 |-> old[ch] - new[ch] * SC]
    IN Diffuse(wk, c.w, c.h, k, new, err)

Clamped(wk, k) == <<ClampRound(wk[k][1]), ClampRound(wk[k][2]), ClampRound(wk[k][3])>>

\* np.clip(work + 0.5, 0, 255).astype(np.uint8)
ToUint8(v) == Max(0, Min(255 * SC, v + SC \div 2)) \div SC

\* the array returned: of dither_array_fast, and of FloydSteinbergDither.dither
Returned(wk, algo) ==
    [j \in DOMAIN wk |->
        [c \in 1..3 |-> IF algo = "fast" THEN ToUint8(wk[j][c])
                        ELSE ClampRound(wk[j][c])]]

(***************************************************************************)
(* The dither specification: one call of dither_array_fast (or of          *)
(* FloydSteinbergDither.dither), run pixel by pixel, together with a       *)
(* second run of the same call that differs only in red_penalty.           *)
(***************************************************************************)
PixelSet == { EINK_WHITE, <<115, 60, 0>>, <<120, 80, 30>>, <<240, 220, 220>> }
Palettes == { EINK_PALETTE, <<EINK_BLACK, EINK_WHITE>> }
ErrorClamps == {0, 85}
\* <<red_penalty of the first run, red_penalty of the second>>, first <= second
PenaltyPairs == { <<0, 0>>, <<0, 10>>, <<10, 30>> }
YellowPenalties == {0, 15}
CsfWeights == {60, 100}

\* no dither call, no find_nearest call, no gamut call under way
DitherIdle ==
    /\ cfg = "none" /\ rgb_array = <<>> /\ work = <<>> /\ work2 = <<>>
    /\ pos = 0 /\ result = <<>> /\ result2 = <<>>
NearestIdle == nargs = "none" /\ nidx = -1 /\ ncolor = "none"
GamutIdle == gimg = <<>> /\ gcall = [op |-> "none"] /\ gout = <<>> /\ gerr = "none"
ConverterIdle ==
    /\ converter = "none" /\ cset = "none" /\ nsets = 0 /\ ccall = [entry |-> "none"]
    /\ cimg = <<>> /\ cstages = <<>> /\ cprog = <<>>
OptimizerIdle == study = "none" /\ cancelled = "none" /\ olog = <<>> /\ oresult = "none"
ClaheIdle == lchannel = <<>> /\ lcall = [op |-> "none"] /\ lresult = <<>>
WindowIdle == window = "none"
LaterIdle == ConverterIdle /\ OptimizerIdle /\ ClaheIdle /\ WindowIdle

AsFloat(img) == [k \in DOMAIN img |-> [c \in 1..3 |-> img[k][c] * SC]]

InitDither ==
    \E w \in 1..MaxW, h \in 1..MaxH, c1 \in PixelSet, c2 \in PixelSet,
       palette \in Palettes, algo \in {"fast", "fs"}, ec \in ErrorClamps,
       pp \in PenaltyPairs, yp \in YellowPenalties, csf \in CsfWeights,
       perceived_palette \in {NoPalette, Perceived(EINK_PALETTE_PERCEIVED)} :
        \* a perceived palette goes with the palette it calibrates, in a
        \* call of dither_array_fast
        /\ perceived_palette.given => (algo = "fast" /\ palette = EINK_PALETTE)
        \* FloydSteinbergDither.dither takes the pixels and the palette only
        /\ algo = "fs" => ec = 0 /\ pp = <<0, 0>> /\ yp = 0 /\ csf = 100
        /\ algo = "fs" => w * h <= MaxFsPixels
        /\ cfg = [w |-> w, h |-> h, palette |-> palette, algo |-> algo,
                  error_clamp |-> ec, red_penalty |-> pp[1],
                  red_penalty2 |-> pp[2], yellow_penalty |-> yp,
                  csf_chroma_weight |-> csf,
                  perceived_palette |-> perceived_palette]
        /\ rgb_array = [k \in 0..(w * h - 1) |->
                          IF ((k % w) + (k \div w)) % 2 = 0 THEN c1 ELSE c2]
        /\ work = AsFloat(rgb_array)
        /\ work2 = AsFloat(rgb_array)
        /\ pos = 0
        /\ pc = "scan"
        /\ result = <<>>
        /\ result2 = <<>>
        /\ NearestIdle
        /\ GamutIdle
        /\ LaterIdle

\* dither_array_fast: the body of `for y ... for x ...` at the next pixel
DitherFastPixel ==
    /\ pc = "scan"
    /\ cfg.algo = "fast"
    /\ ~cfg.perceived_palette.given
    /\ pos < cfg.w * cfg.h
    /\ work' = FastPixel(work, cfg, cfg.red_penalty, pos)
    /\ work2' = FastPixel(work2, cfg, cfg.red_penalty2, pos)
    /\ pos' = pos + 1
    /\ UNCHANGED <<cfg, rgb_array, pc, result, result2, nearestVars, gamutVars, laterVars>>

\* FloydSteinbergDither.dither: the body of its loop at the next pixel
DitherFsPixel ==
    /\ pc = "scan"
    /\ cfg.algo = "fs"
    /\ pos < cfg.w * cfg.h
    /\ \E de \in Ciede2000Tables(Clamped(work, pos), cfg.palette) :
          /\ work' = FloydSteinbergPixel(work, cfg, pos, de)
          /\ work2' = work'
    /\ pos' = pos + 1
    /\ UNCHANGED <<cfg, rgb_array, pc, result, result2, nearestVars, gamutVars, laterVars>>

\* the return statement after the loops
DitherReturn ==
    /\ pc = "scan"
    /\ pos = cfg.w * cfg.h
    /\ result' = Returned(work, cfg.algo)
    /\ result2' = Returned(work2, cfg.algo)
    /\ pc' = "done"
    /\ UNCHANGED <<cfg, rgb_array, work, work2, pos, nearestVars, gamutVars, laterVars>>

\* dither_array_fast called with perceived_palette=...: the function has no
\* such parameter, so the call raises TypeError before its body runs
DitherUnexpectedKeyword ==
    /\ pc = "scan"
    /\ cfg.algo = "fast"
    /\ cfg.perceived_palette.given
    /\ pc' = "TypeError"
    /\ UNCHANGED <<ditherVars, nearestVars, gamutVars, laterVars>>

NextDither == DitherFastPixel \/ DitherFsPixel \/ DitherReturn \/ DitherUnexpectedKeyword

SpecDither == InitDither /\ [][NextDither]_vars

(***************************************************************************)
(* Claims about dithering.                                                 *)
(***************************************************************************)
PaletteColors(palette) == { palette[i] : i \in 1..Len(palette) }

RedCount(arr) == Cardinality({ j \in DOMAIN arr : IsReddish(arr[j]) })

\* the colour written into the working buffer at a visited pixel
Written(wk, j) == [c \in 1..3 |-> wk[j][c] \div SC]

UsePenalty(red_penalty) == red_penalty > 0 \/ cfg.yellow_penalty > 0

\* C1: every pixel of the returned array is exactly one of the palette's RGB
\* values, for dither_array_fast and for FloydSteinbergDither.dither.
C1_OutputOnlyPaletteColors ==
    pc = "done" =>
        /\ DOMAIN result = DOMAIN rgb_array
        /\ \A j \in DOMAIN result :
              /\ result[j] \in PaletteColors(cfg.palette)
              /\ result2[j] \in PaletteColors(cfg.palette)

\* a call has returned an image of several pixels in which residuals were
\* diffused (some pixel of the input is no palette colour)
C1_Witness ==
    /\ pc = "done"
    /\ cfg.w * cfg.h >= 2
    /\ cfg.error_clamp > 0
    /\ cfg.csf_chroma_weight < 100
    /\ \E j \in DOMAIN rgb_array : rgb_array[j] \notin PaletteColors(cfg.palette)
    /\ \E j \in DOMAIN result : result[j] # result2[j]

\* C2 as stated: with red_penalty raised (all else equal) the number of
\* reddish output pixels does not go up.
C2_RedCountNeverIncreases ==
    pc = "done" => RedCount(result2) <= RedCount(result)

\* C2 amended: when both runs take the penalty branch, the first pixel of the
\* scan is reddish under the larger red_penalty only if it is reddish under
\* the smaller one.
C2_FirstPixelMonotone ==
    (pos >= 1 /\ cfg.algo = "fast" /\ UsePenalty(cfg.red_penalty)) =>
        (IsReddish(Written(work2, 0)) => IsReddish(Written(work, 0)))

\* the larger penalty turned the first pixel away from the reddish colour
C2_Witness ==
    /\ pc = "done"
    /\ cfg.algo = "fast"
    /\ 0 < cfg.red_penalty
    /\ cfg.red_penalty < cfg.red_penalty2
    /\ IsReddish(result[0])
    /\ ~IsReddish(result2[0])

\* C3: a uniformly white image on the default palette with both penalties 0
\* is returned exactly white at every pixel, for any error_clamp.
C3_WhiteStaysWhite ==
    ( /\ pc = "done"
      /\ cfg.palette = EINK_PALETTE
      /\ cfg.red_penalty = 0 /\ cfg.yellow_penalty = 0
      /\ \A j \in DOMAIN rgb_array : rgb_array[j] = EINK_WHITE )
    => \A j \in DOMAIN result : result[j] = EINK_WHITE

C3_Witness ==
    /\ pc = "done"
    /\ cfg.palette = EINK_PALETTE
    /\ cfg.algo = "fast"
    /\ cfg.error_clamp > 0
    /\ cfg.red_penalty = 0 /\ cfg.yellow_penalty = 0
    /\ cfg.w * cfg.h >= 2
    /\ \A j \in DOMAIN rgb_array : rgb_array[j] = EINK_WHITE
    /\ \A j \in DOMAIN result : result[j] = EINK_WHITE

(***************************************************************************)
(* The nearest-colour specification: one call of find_nearest_color_index  *)
(* or of find_nearest_color (domain/color.py) on a palette of 1 to         *)
(* MaxPaletteLen entries, with or without a perceived palette of the same  *)
(* length, the ciede2000 values of the call being any table de.            *)
(***************************************************************************)
MaxPaletteLen == 2

NearestColors == { EINK_WHITE, EINK_RED, EINK_YELLOW }
PerceivedColors == { EINK_WHITE, <<120, 80, 30>> }
QueryColors == { EINK_WHITE, <<115, 60, 0>> }
\* <<red_penalty, yellow_penalty, 2 * brightness>>
PenaltyCases ==
    { <<0, 0, 1>>, <<2, 0, 1>>, <<0, 3, 1>>, <<2, 2, 0>>, <<1, 1, 2>>,
      <<2, 0, 0>>, <<0, 3, 2>>, <<3, 0, 2>> }

SeqsOf(S, n) == [1..n -> S]

\* the arguments of a call
NearestArgs(color, pen, palette, perceived, de) ==
    [color |-> color, palette |-> palette, red_penalty |-> pen[1],
     yellow_penalty |-> pen[2], brightness2 |-> pen[3],
     perceived_palette |-> perceived, de |-> de]

\* the perceived palettes a palette of n entries can come with
PerceivedOfLen(n) ==
    {NoPalette} \cup { Perceived(q) : q \in SeqsOf(PerceivedColors, n) }

InitNearest ==
    /\ pc = "idle"
    /\ DitherIdle
    /\ NearestIdle
    /\ GamutIdle
    /\ LaterIdle

\* find_nearest_color_index(color, palette, red_penalty, yellow_penalty,
\*                          brightness, perceived_palette)
FindNearestColorIndex ==
    /\ pc = "idle"
    /\ \E n \in 1..MaxPaletteLen, color \in QueryColors, pen \in PenaltyCases :
         \E palette \in SeqsOf(NearestColors, n), perceived \in PerceivedOfLen(n) :
           \E de \in Ciede2000Tables(color, DistPalette(palette, perceived)) :
              /\ nargs' = NearestArgs(color, pen, palette, perceived, de)
              /\ nidx' = find_nearest_color_index(palette, pen[1], pen[2], pen[3],
                                                  perceived, de)
    /\ pc' = "index"
    /\ UNCHANGED <<ncolor, ditherVars, gamutVars, laterVars>>

\* find_nearest_color(...): the index, then palette[idx]
FindNearestColor ==
    /\ pc = "idle"
    /\ \E n \in 1..MaxPaletteLen, color \in QueryColors, pen \in PenaltyCases :
         \E palette \in SeqsOf(NearestColors, n), perceived \in PerceivedOfLen(n) :
           \E de \in Ciede2000Tables(color, DistPalette(palette, perceived)) :
              /\ nargs' = NearestArgs(color, pen, palette, perceived, de)
              /\ nidx' = find_nearest_color_index(palette, pen[1], pen[2], pen[3],
                                                  perceived, de)
              /\ ncolor' = find_nearest_color(palette, pen[1], pen[2], pen[3],
                                              perceived, de)
    /\ pc' = "color"
    /\ UNCHANGED <<ditherVars, gamutVars, laterVars>>

NextNearest == FindNearestColorIndex \/ FindNearestColor

SpecNearest == InitNearest /\ [][NextNearest]_vars

\* the adjusted distance (doubled) of entry i (1-based) in the call made
Adjusted(i) ==
    AdjustedDist(nargs.palette, nargs.red_penalty, nargs.yellow_penalty,
                 nargs.brightness2, nargs.de, i)

\* C4: the index returned is an index of the palette, its adjusted distance
\* is the least of the palette, every earlier entry has a strictly larger
\* one, and find_nearest_color returns the palette entry at that index.
C4_FirstLeastAdjustedDistance ==
    pc \in {"index", "color"} =>
        /\ nidx \in 0..(Len(nargs.palette) - 1)
        /\ \A j \in 1..Len(nargs.palette) : Adjusted(nidx + 1) <= Adjusted(j)
        /\ \A j \in 1..nidx : Adjusted(j) > Adjusted(nidx + 1)
        /\ pc = "color" => ncolor = nargs.palette[nidx + 1]

\* a later entry ties with the one returned, a penalty having made the tie
C4_Witness ==
    /\ pc = "color"
    /\ Len(nargs.palette) >= 2
    /\ nargs.red_penalty > 0
    /\ nidx = 0
    /\ nargs.de[1] # nargs.de[2]
    /\ Adjusted(1) = Adjusted(2)
    /\ ncolor = nargs.palette[1]

\* the distance of entry i of the call made (doubled), with the penalties
\* of the output palette's entry i
Penalised(i) ==
    2 * nargs.de[i]
      + (IF IsReddish(nargs.palette[i])
         THEN nargs.red_penalty * nargs.brightness2 ELSE 0)
      + (IF IsYellowish(nargs.palette[i])
         THEN nargs.yellow_penalty * (2 - nargs.brightness2) ELSE 0)

\* i is the first entry at which the table t over 1..n is least
FirstLeast(t, n, i) ==
    /\ i \in 1..n
    /\ \A j \in 1..n : t[i] <= t[j]
    /\ \A j \in 1..(i - 1) : t[j] > t[i]

\* C25: red_penalty * brightness (yellow_penalty * (1 - brightness)) is added
\* to entry i exactly when the output colour palette[i] is reddish
\* (yellowish), also when the distance is measured to perceived_palette[i];
\* so a red penalty at brightness 0 and a yellow penalty at brightness 1
\* select the index that no penalty selects.
C25_PenaltyByOutputPalette ==
    pc \in {"index", "color"} =>
        LET n == Len(nargs.palette)
        IN /\ FirstLeast([i \in 1..n |-> Penalised(i)], n, nidx + 1)
           /\ (  (nargs.yellow_penalty = 0 /\ nargs.brightness2 = 0)
              \/ (nargs.red_penalty = 0 /\ nargs.brightness2 = 2))
                 => FirstLeast(nargs.de, n, nidx + 1)

\* a perceived palette is given, the nearer entry is the red of the output
\* palette, and the red penalty has made the search return the other entry
C25_Witness ==
    /\ pc = "index"
    /\ nargs.perceived_palette.given
    /\ nargs.palette = <<EINK_RED, EINK_WHITE>>
    /\ ~IsReddish(nargs.perceived_palette.colors[1])
    /\ nargs.red_penalty > 0
    /\ nargs.de[1] < nargs.de[2]
    /\ nidx = 1

(***************************************************************************)
(* infrastructure/gamut_mapping.py, HSL part.  Hue is counted in units of  *)
(* 1/HueSextant of a sixth of a turn, saturation and lightness in units of *)
(* 1/LevelScale of an 8-bit level (the code's 0-1 values times 255);       *)
(* strength and the illuminant settings are in hundredths.  A channel that *)
(* lands exactly halfway between two levels is rounded up here; float64    *)
(* puts it on either side, one level apart.                                *)
(***************************************************************************)
HueSextant == 100000
LevelScale == 2000
Turn == 6 * HueSextant

\* <<quotient, remainder>> of a * (base * bh + low) by c, given those of
\* a * bh by c as h
MulDivModStep(h, a, low, base, c) ==
    LET r2 == ((base * h[2]) % c) + (low * (a % c))
    IN << (base * h[1]) + ((base * h[2]) \div c) + (low * (a \div c)) + (r2 \div c), r2 % c >>

\* the digits of b the recursion of MulDivMod takes at a time
MulDivModBase(a, c) == IF a < 67108864 /\ c < 67108864 THEN 16 ELSE 2

\* <<quotient, remainder>> of a * b by c, for a, b >= 0 and 0 < c < 2^30,
\* without forming a product a * b that is beyond 32 bits
RECURSIVE MulDivMod(_, _, _)
MulDivMod(a, b, c) ==
    IF a = 0 \/ b <= 2147483647 \div a THEN << (a * b) \div c, (a * b) % c >>
    ELSE MulDivModStep(MulDivMod(a, b \div MulDivModBase(a, c), c), a, b % MulDivModBase(a, c), MulDivModBase(a, c), c)

\* quotient qr[1], remainder qr[2] by c > 0, rounded to the nearest integer
Nearest(qr, c) == IF 2 * qr[2] >= c THEN qr[1] + 1 ELSE qr[1]

\* a * b / c rounded to the nearest integer (c # 0), as a float quotient is
Ratio(a, b, c) ==
    (IF (a < 0) = ((b < 0) = (c < 0)) THEN -1 ELSE 1) * Nearest(MulDivMod(Abs(a), Abs(b), Abs(c)), Abs(c))

SetMin(S) == CHOOSE x \in S : \A y \in S : x <= y
SetMax(S) == CHOOSE x \in S : \A y \in S : x >= y

\* _rgb_to_hsl_batch on one pixel: <<h, s, l>> with s = max - min
rgb_to_hsl(rgb) ==
    LET r == rgb[1]
        g == rgb[2]
        b == rgb[3]
        max_c == Max(Max(r, g), b)
        min_c == Min(Min(r, g), b)
        d == max_c - min_c
        h == IF d = 0 THEN 0
             ELSE IF max_c = r THEN Ratio(g - b, HueSextant, d) % Turn
             ELSE IF max_c = g THEN Ratio(b - r, HueSextant, d) + 2 * HueSextant
             ELSE Ratio(r - g, HueSextant, d) + 4 * HueSextant
    IN << h % Turn, d * LevelScale, ((max_c + min_c) * LevelScale) \div 2 >>

\* np.clip(rgb * 255.0 + 0.5, 0, 255).astype(np.uint8) of a channel value
HslLevel(x) == Max(0, Min(255 * LevelScale, Max(0, Min(255 * LevelScale, x)) + LevelScale \div 2)) \div LevelScale

\* _hsl_to_rgb_batch on one pixel
hsl_to_rgb(hsl) ==
    LET h == hsl[1]
        s == hsl[2]
        l == hsl[3]
        max_c == l + s \div 2
        min_c == l - s \div 2
        h6 == h % Turn
        rng == max_c - min_c
        up(f) == min_c + Ratio(rng, f, HueSextant)
        rgb == IF s = 0 THEN <<l, l, l>>
               ELSE IF h6 < HueSextant THEN <<max_c, up(h6), min_c>>
               ELSE IF h6 < 2 * HueSextant THEN <<up(2 * HueSextant - h6), max_c, min_c>>
               ELSE IF h6 < 3 * HueSextant THEN <<min_c, max_c, up(h6 - 2 * HueSextant)>>
               ELSE IF h6 < 4 * HueSextant THEN <<min_c, up(4 * HueSextant - h6), max_c>>
               ELSE IF h6 < 5 * HueSextant THEN <<up(h6 - 4 * HueSextant), min_c, max_c>>
               ELSE <<max_c, min_c, up(6 * HueSextant - h6)>>
    IN << HslLevel(rgb[1]), HslLevel(rgb[2]), HslLevel(rgb[3]) >>

\* _hue_diff: the signed hue difference, in [-Turn/2, Turn/2)
hue_diff(h1, h2) ==
    LET d == (h1 - h2) % Turn
    IN IF d < Turn \div 2 THEN d ELSE d - Turn

\* the mutant of _hue_clip: every hue is sent to the centre of the span
HueClipToCentre(h_min, h_range, hue) == (h_min + h_range \div 2) % Turn

\* _hue_clip
hue_clip(h_min, h_range, hue) ==
    LET radius == h_range \div 2
        center == (h_min + radius) % Turn
        d == hue_diff(hue, center)
    IN (IF d < -radius THEN (center - radius) % Turn
        ELSE IF d > radius THEN (center + radius) % Turn
        ELSE hue) % Turn

\* sum(c.r for c in palette), and so for g and b, over entries 1..i
RECURSIVE ChannelSum(_, _, _)
ChannelSum(palette, c, i) ==
    IF i = 0 THEN 0 ELSE palette[i][c] + ChannelSum(palette, c, i - 1)

\* the mutant of the palette's hue span: no spread about the centroid's hue
PaletteHslRangeCentreOnly(palette) ==
    LET n == Len(palette)
        sum(c) == ChannelSum(palette, c, n)
        center_rgb == << sum(1) \div n, sum(2) \div n, sum(3) \div n >>
    IN << rgb_to_hsl(center_rgb)[1], 0 >>

\* _compute_palette_hsl_range: <<h_min, h_range>>
compute_palette_hsl_range(palette) ==
    LET n == Len(palette)
        sum(c) == ChannelSum(palette, c, n)
        center_rgb == << sum(1) \div n, sum(2) \div n, sum(3) \div n >>
        center_h == rgb_to_hsl(center_rgb)[1]
        \* s > 0.01, s being (max - min) / 255
        chromatic == { i \in 1..n : 100 * rgb_to_hsl(palette[i])[2] > 255 * LevelScale }
        dists == { hue_diff(rgb_to_hsl(palette[i])[1], center_h) : i \in chromatic }
        h_dist_min == SetMin(dists \cup {0})
        h_dist_max == SetMax(dists \cup {0})
    IN << (center_h + h_dist_min) % Turn, h_dist_max - h_dist_min >>

\* ((h_clipped - h + 0.5) % 1.0) - 0.5: the signed step from h to h_clipped
HueStep(h, h_clipped) == ((h_clipped - h + Turn \div 2) % Turn) - Turn \div 2

\* strength * (1 - desaturation), as a number of 1/(100 * HueSextant), the
\* tolerance _DEFAULT_HUE_TOLERANCE being a sixth of a turn
Desaturated(strength, h_diff) ==
    strength * (IF h_diff >= HueSextant THEN HueSextant ELSE h_diff)

\* the mutant of gamut_map: the strength argument is not looked at
GamutMapAtFullStrength(rgb, palette, strength) ==
    LET range == compute_palette_hsl_range(palette)
        hsl == rgb_to_hsl(rgb)
        step == HueStep(hsl[1], hue_clip(range[1], range[2], hsl[1]))
        new_s == hsl[2] - Ratio(hsl[2], Desaturated(100, Abs(step)), 100 * HueSextant)
    IN hsl_to_rgb(<< (hsl[1] + step) % Turn, new_s, hsl[3] >>)

\* gamut_map on one pixel (strength in hundredths)
gamut_map(rgb, palette, strength) ==
    IF strength <= 0 THEN rgb
    ELSE LET st == Min(strength, 100)
             range == compute_palette_hsl_range(palette)
             hsl == rgb_to_hsl(rgb)
             step == HueStep(hsl[1], hue_clip(range[1], range[2], hsl[1]))
             new_s == hsl[2] - Ratio(hsl[2], Desaturated(st, Abs(step)), 100 * HueSextant)
             new_h == (hsl[1] + (st * step) \div 100) % Turn
         IN hsl_to_rgb(<< new_h, new_s, hsl[3] >>)

\* s / safe_factor: the saturation restored, the factor being
\* factor_num / (100 * HueSextant); above SatCap the clip of _hsl_to_rgb_batch
\* returns the same channels
SatCap == 1000000000
RestoredSaturation(s, factor_num) ==
    IF factor_num = 0 THEN s
    ELSE IF s \div factor_num >= 100 THEN SatCap
    ELSE Min(SatCap, Ratio(s, 100 * HueSextant, factor_num))

\* inverse_gamut_map on one pixel
inverse_gamut_map(rgb, palette, strength) ==
    IF strength <= 0 THEN rgb
    ELSE LET st == Min(strength, 100)
             range == compute_palette_hsl_range(palette)
             hsl == rgb_to_hsl(rgb)
             step == HueStep(hsl[1], hue_clip(range[1], range[2], hsl[1]))
             factor_num == 100 * HueSextant - Desaturated(st, Abs(step))
         IN hsl_to_rgb(<< hsl[1], RestoredSaturation(hsl[2], factor_num), hsl[3] >>)

\* np.clip(illuminated + 0.5, 0, 255).astype(np.uint8) of a channel value
IlluminantLevel(x) == Max(0, Min(255 * LevelScale, x + LevelScale \div 2)) \div LevelScale

\* apply_illuminant on one pixel (scales and white_preserve in hundredths)
apply_illuminant(rgb, r_scale, g_scale, b_scale, white_preserve) ==
    LET scale == <<r_scale, g_scale, b_scale>>
        \* lum_factor, in millionths
        lum_factor == 2126 * r_scale + 7152 * g_scale + 722 * b_scale
        illuminated(c) ==
            IF lum_factor > 0
            THEN Ratio(rgb[c] * LevelScale, scale[c] * 10000, lum_factor)
            ELSE (rgb[c] * LevelScale * scale[c]) \div 100
        \* preserve = (mean(original) / 255)^2 * white_preserve = pn / pd
        total == rgb[1] + rgb[2] + rgb[3]
        pn == total * total * white_preserve
        pd == 765 * 765 * 100
        blended(c) ==
            IF white_preserve > 0
            THEN illuminated(c) - Ratio(illuminated(c), pn, pd)
                   + Ratio(rgb[c] * LevelScale, pn, pd)
            ELSE illuminated(c)
    IN << IlluminantLevel(blended(1)), IlluminantLevel(blended(2)),
          IlluminantLevel(blended(3)) >>

(***************************************************************************)
(* infrastructure/gamut_mapping.py, tetrahedron part.  Palette vertices    *)
(* and input pixels are multiples of 5, kept as integers in units of 5     *)
(* levels ("fifths"); points computed from them are kept in hundredths of  *)
(* a level.  A face normal is kept as the shortest integer vector of its   *)
(* direction: the code divides by its length, which changes no sign and no *)
(* ratio of two dot products with the same normal.  The rounding of a      *)
(* channel exactly halfway between two levels is as in the HSL part.       *)
(***************************************************************************)
Sub3(a, b) == << a[1] - b[1], a[2] - b[2], a[3] - b[3] >>
Dot3(a, b) == a[1] * b[1] + a[2] * b[2] + a[3] * b[3]
Cross3(a, b) ==
    << a[2] * b[3] - a[3] * b[2], a[3] * b[1] - a[1] * b[3], a[1] * b[2] - a[2] * b[1] >>
Scale3(k, a) == << k * a[1], k * a[2], k * a[3] >>

RECURSIVE Gcd(_, _)
Gcd(a, b) == IF b = 0 THEN a ELSE Gcd(b, a % b)

\* [c.r / 255.0, c.g / 255.0, c.b / 255.0], in fifths
Fifths(c) == << c[1] \div 5, c[2] \div 5, c[3] \div 5 >>
Vertices(palette) == [i \in 1..Len(palette) |-> Fifths(palette[i])]

\* a point given in fifths, in hundredths of a level
Hundredths(v) == Scale3(500, v)

\* face_indices: three vertices of a face and the vertex opposite (0-based)
face_indices == << <<1, 2, 3, 0>>, <<0, 3, 2, 1>>, <<0, 1, 3, 2>>, <<0, 2, 1, 3>> >>

\* normal / norm_len if norm_len > 1e-12
Normalized(n) ==
    LET g == Gcd(Gcd(Abs(n[1]), Abs(n[2])), Abs(n[3]))
    IN IF g > 0 THEN << n[1] \div g, n[2] \div g, n[3] \div g >> ELSE n

\* the outward normal of face i (1-based) of the tetrahedron
FaceNormal(vertices, i) ==
    LET f == face_indices[i]
        v0 == vertices[f[1] + 1]
        v1 == vertices[f[2] + 1]
        v2 == vertices[f[3] + 1]
        normal == Normalized(Cross3(Sub3(v1, v0), Sub3(v2, v0)))
        to_opp == Sub3(vertices[f[4] + 1], v0)
    IN IF Dot3(normal, to_opp) > 0 THEN Scale3(-1, normal) ELSE normal

\* _build_tetrahedron_faces: vertices[3] of fewer than 4 rows is an
\* IndexError; rows after the fourth are never read
build_tetrahedron_faces(vertices) ==
    IF Len(vertices) < 4
    THEN [err |-> "IndexError", face_verts |-> <<>>, face_normals |-> <<>>]
    ELSE [err |-> "none",
          face_verts |-> [i \in 1..4 |->
              << vertices[face_indices[i][1] + 1], vertices[face_indices[i][2] + 1],
                 vertices[face_indices[i][3] + 1] >>],
          face_normals |-> [i \in 1..4 |-> FaceNormal(vertices, i)]]

\* _is_inside_tetrahedron of a point given in levels: dot <= 1e-10 on every
\* face (the dot product is an integer over a length, so <= 0)
is_inside_tetrahedron(point, face_vertices, face_normals) ==
    \A i \in 1..4 :
        Dot3(Sub3(point, Scale3(5, face_vertices[i][1])), face_normals[i]) <= 0

\* v + (num / den) * e in hundredths of a level; s = 0 when |den| <= 1e-30
Along(v, num, den, e) ==
    [c \in 1..3 |-> 500 * v[c] + (IF den = 0 THEN 0 ELSE Ratio(num, 500 * e[c], den))]

\* _closest_point_on_triangle of a point p given in fifths
closest_point_on_triangle(p, v0, v1, v2) ==
    LET ab == Sub3(v1, v0)
        ac == Sub3(v2, v0)
        d1 == Dot3(Sub3(p, v0), ab)
        d2 == Dot3(Sub3(p, v0), ac)
        d3 == Dot3(Sub3(p, v1), ab)
        d4 == Dot3(Sub3(p, v1), ac)
        d5 == Dot3(Sub3(p, v2), ab)
        d6 == Dot3(Sub3(p, v2), ac)
        vc == d1 * d4 - d3 * d2
        vb == d5 * d2 - d1 * d6
        va == d3 * d6 - d5 * d4
        denom_bary == va + vb + vc
    IN IF d1 <= 0 /\ d2 <= 0 THEN Hundredths(v0)
       ELSE IF d3 >= 0 /\ d4 <= d3 THEN Hundredths(v1)
       ELSE IF vc <= 0 /\ d1 >= 0 /\ d3 <= 0 THEN Along(v0, d1, d1 - d3, ab)
       ELSE IF d6 >= 0 /\ d5 <= d6 THEN Hundredths(v2)
       ELSE IF vb <= 0 /\ d2 >= 0 /\ d6 <= 0 THEN Along(v0, d2, d2 - d6, ac)
       ELSE IF va <= 0 /\ d4 - d3 >= 0 /\ d5 - d6 >= 0
            THEN Along(v1, d4 - d3, (d4 - d3) + (d5 - d6), Sub3(v2, v1))
       ELSE IF denom_bary = 0 THEN Along(v0, vb + vc, 1, <<0, 0, 0>>)
       ELSE [c \in 1..3 |-> 500 * v0[c] + Ratio(vb, 500 * ab[c], denom_bary)
                                         + Ratio(vc, 500 * ac[c], denom_bary)]

\* np.sum(diff * diff): the squared distance of p (fifths) to q (hundredths)
DistSq(p, q) == LET d == Sub3(Hundredths(p), q) IN Dot3(d, d)

\* the loop of _project_to_tetrahedron_surface over faces i..4
RECURSIVE ProjectScan(_, _, _, _, _)
ProjectScan(p, face_vertices, i, best_dist_sq, best_proj) ==
    IF i > 4 THEN best_proj
    ELSE LET f == face_vertices[i]
             proj == closest_point_on_triangle(p, f[1], f[2], f[3])
             dist_sq == DistSq(p, proj)
         IN IF dist_sq < best_dist_sq
            THEN ProjectScan(p, face_vertices, i + 1, dist_sq, proj)
            ELSE ProjectScan(p, face_vertices, i + 1, best_dist_sq, best_proj)

\* _project_to_tetrahedron_surface
project_to_tetrahedron_surface(p, face_vertices) ==
    ProjectScan(p, face_vertices, 1, Inf, Hundredths(p))

\* the barycentric coordinates u, v of _clip_via_centroid are kept in
\* units of 1 / BaryScale
BaryScale == 10000
\* the slack of the in-triangle test: the code's 1e-8 absorbs the rounding
\* of float64, this one the rounding of the hit point to hundredths
BaryEps == 2

\* vertices.mean(axis=0) is kept as the sum of ALL rows of vertices and
\* their number: centroid = CentroidSum(vertices) / Len(vertices)
RECURSIVE CentroidSum(_, _)
CentroidSum(vertices, i) ==
    IF i > Len(vertices) THEN <<0, 0, 0>>
    ELSE LET rest == CentroidSum(vertices, i + 1)
         IN << vertices[i][1] + rest[1], vertices[i][2] + rest[2], vertices[i][3] + rest[3] >>

\* the ray parameter t of face i as a fraction <<numer, denom>> with
\* denom > 0, in units of the length of the direction; <<1, 0>> is np.inf
RayT(dirN, v0N, normal) ==
    LET denom == Dot3(dirN, normal)
        numer == Dot3(v0N, normal)
    IN IF denom = 0 THEN <<1, 0>>
       ELSE IF denom < 0 THEN << -numer, -denom >> ELSE <<numer, denom>>

\* t > 1e-10 and finite
RayValid(t) == t[2] # 0 /\ t[1] > 0

\* t < best_t
RayLess(t, best_t) ==
    IF t[2] = 0 THEN FALSE
    ELSE IF best_t[2] = 0 THEN TRUE
    ELSE t[1] * best_t[2] < best_t[1] * t[2]

\* hit = centroid + safe_t * directions, in hundredths of a level
RayHit(S, n, dirN, t) ==
    [c \in 1..3 |->
        LET along == IF RayValid(t) THEN Ratio(t[1], 500 * dirN[c], t[2]) ELSE 0
            num == 500 * S[c] + along
        IN (2 * num + n) \div (2 * n)]

\* in_tri without the valid flag: the barycentric test of the hit point
InTriangle(hit, v0, v1, v2) ==
    LET edge1 == Sub3(v1, v0)
        edge2 == Sub3(v2, v0)
        h_pts == Sub3(hit, Hundredths(v0))
        dot11 == Dot3(edge1, edge1)
        dot12 == Dot3(edge1, edge2)
        dot22 == Dot3(edge2, edge2)
        dot_h1 == (BaryScale \div 500) * Dot3(h_pts, edge1)
        dot_h2 == (BaryScale \div 500) * Dot3(h_pts, edge2)
        inv_denom == dot11 * dot22 - dot12 * dot12
        u == Ratio(dot22, dot_h1, inv_denom) - Ratio(dot12, dot_h2, inv_denom)
        v == Ratio(dot11, dot_h2, inv_denom) - Ratio(dot12, dot_h1, inv_denom)
    IN u >= -BaryEps /\ v >= -BaryEps /\ u + v <= BaryScale + BaryEps

\* the loop of _clip_via_centroid over faces i..4: <<best_t, best_point>>
RECURSIVE ClipScan(_, _, _, _, _, _, _, _)
ClipScan(S, n, dirN, face_vertices, face_normals, i, best_t, best_point) ==
    IF i > 4 THEN <<best_t, best_point>>
    ELSE LET f == face_vertices[i]
             v0 == f[1]
             edge1 == Sub3(f[2], v0)
             edge2 == Sub3(f[3], v0)
             t == RayT(dirN, Sub3(Scale3(n, v0), S), face_normals[i])
             hit == RayHit(S, n, dirN, t)
             degenerate_face ==
                 Dot3(edge1, edge1) * Dot3(edge2, edge2) = Dot3(edge1, edge2) * Dot3(edge1, edge2)
             better == /\ ~degenerate_face
                       /\ RayValid(t)
                       /\ InTriangle(hit, v0, f[2], f[3])
                       /\ RayLess(t, best_t)
         IN IF better
            THEN ClipScan(S, n, dirN, face_vertices, face_normals, i + 1, t, hit)
            ELSE ClipScan(S, n, dirN, face_vertices, face_normals, i + 1, best_t, best_point)

\* _clip_via_centroid of a point p given in fifths
clip_via_centroid(p, S, n, face_vertices, face_normals) ==
    LET dirN == Sub3(Scale3(n, p), S)
        degenerate == dirN = <<0, 0, 0>>
        best == ClipScan(S, n, dirN, face_vertices, face_normals, 1, <<1, 0>>, Hundredths(p))
        no_hit == best[1][2] = 0 \/ degenerate
    IN IF no_hit THEN project_to_tetrahedron_surface(p, face_vertices) ELSE best[2]

\* np.clip(pixels * 255.0 + 0.5, 0, 255).astype(np.uint8) on one channel
ToLevel(x) == Max(0, Min(255, (x + 50) \div 100))
ToLevels(q) == << ToLevel(q[1]), ToLevel(q[2]), ToLevel(q[3]) >>

\* the result of a call: the exception raised, or the returned pixel
Raised(e) == [err |-> e, out |-> <<>>]
Return(pixel) == [err |-> "none", out |-> pixel]

\* anti_saturate that projects every pixel, inside or not
AntiSaturateProjectingAll(rgb, palette) ==
    LET vertices == Vertices(palette)
        faces == build_tetrahedron_faces(vertices)
    IN IF faces.err # "none" THEN Raised(faces.err)
       ELSE Return(ToLevels(project_to_tetrahedron_surface(Fifths(rgb), faces.face_verts)))

\* anti_saturate on one pixel; an outside pixel is a multiple of 5 in
\* every channel
anti_saturate(rgb, palette) ==
    LET vertices == Vertices(palette)
        faces == build_tetrahedron_faces(vertices)
    IN IF faces.err # "none" THEN Raised(faces.err)
       ELSE IF is_inside_tetrahedron(rgb, faces.face_verts, faces.face_normals)
            THEN Return(rgb)
       ELSE Return(ToLevels(project_to_tetrahedron_surface(Fifths(rgb), faces.face_verts)))

\* anti_saturate_centroid on one pixel; an outside pixel is a multiple of 5
\* in every channel
anti_saturate_centroid(rgb, palette) ==
    LET vertices == Vertices(palette)
        faces == build_tetrahedron_faces(vertices)
        S == CentroidSum(vertices, 1)
    IN IF faces.err # "none" THEN Raised(faces.err)
       ELSE IF is_inside_tetrahedron(rgb, faces.face_verts, faces.face_normals)
            THEN Return(rgb)
       ELSE Return(ToLevels(clip_via_centroid(Fifths(rgb), S, Len(vertices), faces.face_verts, faces.face_normals)))

\* ImageConverter._apply_color_processing with use_lab_space off, that sends
\* every mode to apply_illuminant
ApplyColorProcessingAlwaysIlluminant(conv, rgb) ==
    Return(apply_illuminant(rgb, conv.illuminant_red + conv.illuminant_yellow,
                            conv.illuminant_yellow, 0, conv.illuminant_white))

\* ImageConverter._apply_color_processing with use_lab_space off
\* (anti_saturate_lab and anti_saturate_centroid_lab, which it calls when
\* use_lab_space is on, are not among the sources)
apply_color_processing(conv, rgb) ==
    IF conv.color_mode = "Anti-Saturation" THEN anti_saturate(rgb, conv.palette)
    ELSE IF conv.color_mode = "Centroid Clip" THEN anti_saturate_centroid(rgb, conv.palette)
    ELSE IF conv.color_mode = "Illuminant"
         THEN Return(apply_illuminant(rgb, conv.illuminant_red + conv.illuminant_yellow,
                                      conv.illuminant_yellow, 0, conv.illuminant_white))
    ELSE Return(gamut_map(rgb, conv.palette, conv.gamut_strength))

(***************************************************************************)
(* The gamut mappers, each called on an image of one pixel: every one of   *)
(* them works pixel by pixel.                                              *)
(***************************************************************************)
MaxLevelIdx == 5

\* channel levels from 0 to 255, all multiples of 5
Levels == { 5 * ((51 * i) \div MaxLevelIdx) : i \in 0..MaxLevelIdx }
GrayPixels == { <<v, v, v>> : v \in 0..255 }
\* pixels inside the tetrahedron of EINK_PALETTE, off the grid of Levels
\* colours between red and yellow, the first being the one of
\* test_roundtrip_in_gamut_colors, the others dark, pale or at the ends of the span
RoundTripPixels ==
    { <<180, 80, 20>>, <<2, 1, 0>>, <<3, 2, 2>>, <<200, 10, 10>>, <<250, 250, 10>>,
      <<255, 128, 127>>, <<131, 130, 129>>, <<77, 33, 1>> }
InsidePixels == { <<100, 50, 20>>, <<128, 64, 32>>, <<254, 253, 1>> }
Pixels ==
    (Levels \X Levels \X Levels) \cup GrayPixels \cup InsidePixels
        \cup { EINK_PALETTE[i] : i \in 1..4 } \cup { <<205, 0, 5>>, <<0, 0, 255>> }
        \cup RoundTripPixels

\* ColorMode
ColorModes == {"Grayout", "Anti-Saturation", "Centroid Clip", "Illuminant"}
\* strength, in hundredths
Strengths == {0, 30, 70, 100}
\* illuminant_red, illuminant_yellow, illuminant_white, in hundredths
IlluminantSettings == { <<100, 100, 100>>, <<100, 100, 0>>, <<0, 0, 50>>, <<50, 100, 0>> }

ShortPalette == SubSeq(EINK_PALETTE, 1, 3)
LongPalette == EINK_PALETTE \o << <<0, 0, 255>> >>
TetraPalettes == {EINK_PALETTE, ShortPalette, LongPalette}

InitGamut ==
    /\ pc = "call"
    /\ gimg \in Pixels
    /\ gcall = [op |-> "none"]
    /\ gout = <<>>
    /\ gerr = "none"
    /\ DitherIdle
    /\ NearestIdle
    /\ LaterIdle

\* a call returns a new array or raises; none writes to its argument
Called(call, res) ==
    /\ pc = "call"
    /\ pc' = "done"
    /\ gcall' = call
    /\ gout' = res.out
    /\ gerr' = res.err
    /\ UNCHANGED <<gimg, ditherVars, nearestVars, laterVars>>

\* gamut_map(rgb_array, palette, strength)
GamutMap ==
    \E strength \in Strengths :
        Called([op |-> "gamut_map", rgb_array |-> gimg, palette |-> EINK_PALETTE,
                strength |-> strength],
               Return(gamut_map(gimg, EINK_PALETTE, strength)))

\* inverse_gamut_map(rgb_array, palette, strength)
InverseGamutMap ==
    \E strength \in Strengths :
        Called([op |-> "inverse_gamut_map", rgb_array |-> gimg, palette |-> EINK_PALETTE,
                strength |-> strength],
               Return(inverse_gamut_map(gimg, EINK_PALETTE, strength)))

\* inverse_gamut_map(gamut_map(rgb_array, palette, strength), palette, strength)
GamutMapThenInverse ==
    \E strength \in Strengths :
        LET mapped == gamut_map(gimg, EINK_PALETTE, strength)
        IN Called([op |-> "gamut_map, inverse_gamut_map", rgb_array |-> gimg,
                   palette |-> EINK_PALETTE, strength |-> strength, mapped |-> mapped],
                  Return(inverse_gamut_map(mapped, EINK_PALETTE, strength)))

\* anti_saturate(rgb_array, palette)
AntiSaturate ==
    \E palette \in TetraPalettes :
        Called([op |-> "anti_saturate", rgb_array |-> gimg, palette |-> palette],
               anti_saturate(gimg, palette))

\* anti_saturate_centroid(rgb_array, palette)
AntiSaturateCentroid ==
    \E palette \in TetraPalettes :
        Called([op |-> "anti_saturate_centroid", rgb_array |-> gimg, palette |-> palette],
               anti_saturate_centroid(gimg, palette))

\* ImageConverter._apply_color_processing(rgb_array) of a converter with the
\* default palette, whose setters have clamped the settings to [0, 1]
ApplyColorProcessing ==
    \E mode \in ColorModes, strength \in Strengths, ill \in IlluminantSettings :
        LET conv == [color_mode |-> mode, use_lab_space |-> FALSE,
                     palette |-> EINK_PALETTE, gamut_strength |-> strength,
                     illuminant_red |-> ill[1], illuminant_yellow |-> ill[2],
                     illuminant_white |-> ill[3]]
        IN Called([op |-> "_apply_color_processing", rgb_array |-> gimg, conv |-> conv],
                  apply_color_processing(conv, gimg))

NextGamut ==
    \/ GamutMap
    \/ InverseGamutMap
    \/ GamutMapThenInverse
    \/ AntiSaturate
    \/ AntiSaturateCentroid
    \/ ApplyColorProcessing

SpecGamut == InitGamut /\ [][NextGamut]_vars

----------------------------------------------------------------------------
(* Claims about the gamut mappers *)

Within1(a, b) == \A c \in 1..3 : Abs(a[c] - b[c]) <= 1
IsGray(rgb) == rgb[1] = rgb[2] /\ rgb[2] = rgb[3]
TetraOps == {"anti_saturate", "anti_saturate_centroid"}
\* _is_inside_tetrahedron of a pixel, for the tetrahedron of a palette
InsidePalette(rgb, palette) ==
    LET faces == build_tetrahedron_faces(Vertices(palette))
    IN is_inside_tetrahedron(rgb, faces.face_verts, faces.face_normals)
DispatchedGray ==
    pc = "done" /\ gcall.op = "_apply_color_processing" /\ IsGray(gcall.rgb_array)

C6_PaletteColorsUnchanged ==
    (/\ pc = "done"
     /\ gcall.op \in {"gamut_map"} \cup TetraOps
     /\ Len(gcall.palette) = 4
     /\ \E i \in 1..4 : gcall.rgb_array = gcall.palette[i])
        => gerr = "none" /\ Within1(gout, gcall.rgb_array)

C6_Witness ==
    /\ pc = "done"
    /\ gcall.op = "gamut_map"
    /\ gcall.strength = 100
    /\ gcall.rgb_array = EINK_RED
    /\ Within1(gout, EINK_RED)

\* C7: anti_saturate and anti_saturate_centroid return a pixel that is on
\* the interior side of all four faces with identical channel values.
C7_InsidePixelsIdentical ==
    (/\ pc = "done"
     /\ gcall.op \in TetraOps
     /\ gerr = "none"
     /\ InsidePalette(gcall.rgb_array, gcall.palette))
        => gout = gcall.rgb_array

C7_Witness ==
    /\ pc = "done"
    /\ gcall.op = "anti_saturate"
    /\ gcall.palette = EINK_PALETTE
    /\ gcall.rgb_array = <<200, 150, 100>>
    /\ InsidePalette(gcall.rgb_array, gcall.palette)
    /\ gout = <<200, 150, 100>>

\* C8: the 8-bit output pixel of anti_saturate and of anti_saturate_centroid
\* is classified inside-or-on the palette tetrahedron by
\* _is_inside_tetrahedron, for every input pixel.
C8_OutputInsideTetrahedron ==
    (/\ pc = "done"
     /\ gcall.op \in TetraOps
     /\ Len(gcall.palette) = 4
     /\ gerr = "none")
        => InsidePalette(gout, gcall.palette)

\* C9: gamut_map and inverse_gamut_map with strength 0 return an array equal
\* to the image at every channel and leave the caller's image unmodified.
C9_StrengthZeroIdentity ==
    (/\ pc = "done"
     /\ gcall.op \in {"gamut_map", "inverse_gamut_map"}
     /\ gcall.strength = 0)
        => gerr = "none" /\ gout = gcall.rgb_array /\ gimg = gcall.rgb_array

C9_Witness ==
    /\ pc = "done"
    /\ gcall.op = "gamut_map"
    /\ gcall.strength = 0
    /\ gcall.rgb_array = <<0, 0, 255>>
    /\ gout = <<0, 0, 255>>
    /\ gimg = <<0, 0, 255>>

\* C10: anti_saturate and anti_saturate_centroid called with a palette of
\* other than 4 entries end in an error and yield no output image.
C10_PaletteLengthRejected ==
    (/\ pc = "done"
     /\ gcall.op \in TetraOps
     /\ Len(gcall.palette) # 4)
        => gerr # "none" /\ gout = <<>>


(***************************************************************************)
(* ImageConverter: its fields, its property setters and its entry points.  *)
(* The fields that are floats from 0 to 1 are in hundredths, the penalties *)
(* in tenths, lightness_clip_limit in hundredths, error_clamp is an int.   *)
(* The image an entry point holds is written as the sequence of the        *)
(* functions applied to the caller's image so far, so that what a stage    *)
(* was given can be compared with what the stage before it returned.       *)
(* A property assignment may come from another thread (the window's        *)
(* handlers) while an entry point runs in a worker: the entry points are   *)
(* therefore taken one statement group at a time.                          *)
(***************************************************************************)
MaxSets == 2

\* ImageConverter.__init__
NewImageConverter ==
    [palette |-> EINK_PALETTE, gamut_strength |-> 70, color_mode |-> "Illuminant",
     illuminant_red |-> 100, illuminant_yellow |-> 100, illuminant_white |-> 100,
     error_clamp |-> 85, red_penalty |-> 0, yellow_penalty |-> 0,
     use_lab_space |-> TRUE, csf_chroma_weight |-> 60,
     lightness_remap |-> FALSE, lightness_clip_limit |-> 200]

\* max(lo, min(hi, value)) without the max
ClampUpperOnly(lo, hi, value) == Min(hi, value)

\* max(lo, min(hi, value)), the expression of every clamping setter
Clamp(lo, hi, value) == Max(lo, Min(hi, value))

\* the values handed to the setters of the fields from 0 to 1, of error_clamp,
\* of the penalties and of lightness_clip_limit
UnitValues == {-50, 35, 150}
ErrorClampValues == {-10, 50, 200}
PenaltyValues == {-50, 255, 1500}
ClipLimitValues == {50, 250, 900}

\* the entry points ConvertWorker.run calls on the converter it shares with
\* the window
WorkerEntries == {"convert_array", "convert_array_gamut_only"}

notConverterVars == <<ditherVars, nearestVars, gamutVars, optimizerVars, claheVars, windowVars>>

\* a property assignment `converter.name = value` that stores `stored`:
\* made before an entry point is called, or by a handler of the window
\* (MainWindow._on_*_changed) while the worker runs one; a behaviour ends
\* when the entry point returns
Assign(name, value, stored) ==
    /\ pc = "idle" \/ (pc \in {"resize", "color", "remap", "dither"} /\ ccall.entry \in WorkerEntries)
    /\ nsets < MaxSets
    /\ converter' = [converter EXCEPT ![name] = stored]
    /\ cset' = [name |-> name, value |-> value]
    /\ nsets' = nsets + 1
    /\ UNCHANGED <<pc, ccall, cimg, cstages, cprog, notConverterVars>>

SetGamutStrength == \E value \in UnitValues : Assign("gamut_strength", value, Clamp(0, 100, value))
SetColorMode == \E value \in ColorModes : Assign("color_mode", value, value)
SetIlluminantRed == \E value \in UnitValues : Assign("illuminant_red", value, Clamp(0, 100, value))
SetIlluminantYellow == \E value \in UnitValues : Assign("illuminant_yellow", value, Clamp(0, 100, value))
SetIlluminantWhite == \E value \in UnitValues : Assign("illuminant_white", value, Clamp(0, 100, value))
SetErrorClamp == \E value \in ErrorClampValues : Assign("error_clamp", value, Clamp(0, 128, value))
SetRedPenalty == \E value \in PenaltyValues : Assign("red_penalty", value, Clamp(0, 1000, value))
SetYellowPenalty == \E value \in PenaltyValues : Assign("yellow_penalty", value, Clamp(0, 1000, value))
SetUseLabSpace == \E value \in BOOLEAN : Assign("use_lab_space", value, value)
SetCsfChromaWeight == \E value \in UnitValues : Assign("csf_chroma_weight", value, Clamp(0, 100, value))
SetLightnessRemap == \E value \in BOOLEAN : Assign("lightness_remap", value, value)
SetLightnessClipLimit == \E value \in ClipLimitValues : Assign("lightness_clip_limit", value, Clamp(100, 400, value))

\* the fields each stage reads from the converter
ColorFields(c) ==
    IF c.color_mode \in {"Anti-Saturation", "Centroid Clip"} THEN {"color_mode", "use_lab_space", "palette"}
    ELSE IF c.color_mode = "Illuminant" THEN {"color_mode", "illuminant_red", "illuminant_yellow", "illuminant_white"}
    ELSE {"color_mode", "palette", "gamut_strength"}
RemapFields == {"lightness_remap", "lightness_clip_limit"}
DitherFields == {"palette", "error_clamp", "red_penalty", "yellow_penalty", "csf_chroma_weight"}
Seen(c, fields) == [f \in fields |-> c[f]]

\* the function _apply_color_processing hands the image to
ColorProcessingFunction(c) ==
    IF c.color_mode = "Anti-Saturation"
        THEN (IF c.use_lab_space THEN "anti_saturate_lab" ELSE "anti_saturate")
    ELSE IF c.color_mode = "Centroid Clip"
        THEN (IF c.use_lab_space THEN "anti_saturate_centroid_lab" ELSE "anti_saturate_centroid")
    ELSE IF c.color_mode = "Illuminant" THEN "apply_illuminant"
    ELSE "gamut_map"

\* _apply_lightness_remap that never returns the image as it is
ApplyLightnessRemapAlways(c, img) == Append(img, "clahe_lightness")

\* ImageConverter._apply_lightness_remap
apply_lightness_remap(c, img) ==
    IF ~c.lightness_remap THEN img ELSE Append(img, "clahe_lightness")

\* the value reported with a stage name, in hundredths, that falls back at
\* the dithering stage
ProgressValueFallingBack(entry, name) ==
    IF name = "load" THEN 0
    ELSE IF name = "resize" THEN (IF entry = "convert" THEN 15 ELSE 10)
    ELSE IF name = "gamut mapping" THEN (IF entry = "convert_array" THEN 25 ELSE 30)
    ELSE IF name = "dithering" THEN 20
    ELSE 100

\* the value each entry point reports with a stage name, in hundredths; the
\* names stand for the strings of the source: "load", "resize",
\* "gamut mapping", "dithering", "done"
ProgressValue(entry, name) ==
    IF name = "load" THEN 0
    ELSE IF name = "resize" THEN (IF entry = "convert" THEN 15 ELSE 10)
    ELSE IF name = "gamut mapping" THEN (IF entry = "convert_array" THEN 25 ELSE 30)
    ELSE IF name = "dithering" THEN 50
    ELSE 100

\* `if progress: progress(name, value)`
Report(call, reports, name) ==
    IF call.progress THEN Append(reports, <<name, ProgressValue(call.entry, name)>>)
    ELSE reports

StageEvent(stage, input, output, seen) == [stage |-> stage, input |-> input, output |-> output, seen |-> seen]

InitConverter ==
    /\ pc = "idle"
    /\ converter = NewImageConverter
    /\ cset = "none"
    /\ nsets = 0
    /\ ccall = [entry |-> "none"]
    /\ cimg = <<>>
    /\ cstages = <<>>
    /\ cprog = <<>>
    /\ DitherIdle
    /\ NearestIdle
    /\ GamutIdle
    /\ OptimizerIdle
    /\ ClaheIdle
    /\ WindowIdle

\* an entry point is called: up to its first stage
Begin(entry, progress, first, position) ==
    /\ pc = "idle"
    /\ ccall.entry = "none"
    /\ ccall' = [entry |-> entry, progress |-> progress, config |-> converter]
    /\ cimg' = <<>>
    /\ cstages' = <<>>
    /\ cprog' = IF first = "none" THEN <<>> ELSE Report(ccall', <<>>, first)
    /\ pc' = position
    /\ UNCHANGED <<converter, cset, nsets, notConverterVars>>

\* convert: `if progress: progress("読み込み", 0.0)`
Convert == \E progress \in BOOLEAN : Begin("convert", progress, "load", "load")
\* convert_array: `if progress: progress("リサイズ", 0.1)`
ConvertArray == \E progress \in BOOLEAN : Begin("convert_array", progress, "resize", "resize")
\* convert_array_gamut_only: `if progress: progress("リサイズ", 0.1)`
ConvertArrayGamutOnly == \E progress \in BOOLEAN : Begin("convert_array_gamut_only", progress, "resize", "resize")
\* convert_pre_resized takes no progress callback
ConvertPreResized == Begin("convert_pre_resized", FALSE, "none", "color")

\* one stage of the running entry point: the stage, the report that follows
\* it and the position after it
Stage(stage, output, seen, report, position) ==
    /\ cstages' = Append(cstages, StageEvent(stage, cimg, output, seen))
    /\ cimg' = output
    /\ cprog' = IF report = "none" THEN cprog ELSE Report(ccall, cprog, report)
    /\ pc' = position
    /\ UNCHANGED <<converter, cset, nsets, ccall, notConverterVars>>

\* convert: image = load_image(input_path), then the report of the resize
LoadImage ==
    /\ pc = "load"
    /\ Stage("load", Append(cimg, "load_image"), <<>>, "resize", "resize")

\* resized = resize_image(...), then the report of the gamut mapping
ResizeImage ==
    /\ pc = "resize"
    /\ Stage("resize", Append(cimg, "resize_image"), <<>>, "gamut mapping", "color")

\* mapped = self._apply_color_processing(resized)
ApplyColorProcessingStage ==
    /\ pc = "color"
    /\ Stage("color", Append(cimg, ColorProcessingFunction(converter)), Seen(converter, ColorFields(converter)), "none", "remap")

\* mapped = self._apply_lightness_remap(mapped), then the report of the
\* dithering; convert_array_gamut_only reports the end and returns mapped
ApplyLightnessRemapStage ==
    /\ pc = "remap"
    /\ IF ccall.entry = "convert_array_gamut_only"
       THEN Stage("remap", apply_lightness_remap(converter, cimg), Seen(converter, RemapFields), "done", "returned")
       ELSE Stage("remap", apply_lightness_remap(converter, cimg), Seen(converter, RemapFields), "dithering", "dither")

\* result = self._dither_service.dither_array_fast(mapped, ...), the report
\* of the end and the return
DitherStage ==
    /\ pc = "dither"
    /\ Stage("dither", Append(cimg, "dither_array_fast"), Seen(converter, DitherFields), "done", "returned")

NextConverter ==
    \/ SetGamutStrength \/ SetColorMode \/ SetIlluminantRed
    \/ SetIlluminantYellow \/ SetIlluminantWhite \/ SetErrorClamp
    \/ SetRedPenalty \/ SetYellowPenalty \/ SetUseLabSpace
    \/ SetCsfChromaWeight \/ SetLightnessRemap \/ SetLightnessClipLimit
    \/ Convert \/ ConvertArray \/ ConvertArrayGamutOnly \/ ConvertPreResized
    \/ LoadImage \/ ResizeImage \/ ApplyColorProcessingStage
    \/ ApplyLightnessRemapStage \/ DitherStage

SpecConverter == InitConverter /\ [][NextConverter]_vars


(***************************************************************************)
(* Claims about ImageConverter.                                            *)
(***************************************************************************)
IsPipelineStage(e) == e.stage \in {"color", "remap", "dither"}
PipelineStages == SelectSeq(cstages, IsPipelineStage)
DitheringEntries == {"convert", "convert_array", "convert_pre_resized"}
StageOrder == <<"color", "remap", "dither">>

\* C11: in convert, convert_array and convert_pre_resized the stages run in
\* the order gamut mapping, lightness remap, dithering; each stage is given
\* what the stage before it returned; the lightness remap returns its input
\* as it is when lightness_remap is off and the result of clahe_lightness
\* when it is on; the dithering runs last and exactly once, and its result
\* is what the entry point returns.
C11_StagesInOrder ==
    ccall.entry \in DitheringEntries =>
        /\ Len(PipelineStages) <= 3
        /\ \A i \in 1..Len(PipelineStages) : PipelineStages[i].stage = StageOrder[i]
        /\ \A i \in 2..Len(PipelineStages) : PipelineStages[i].input = PipelineStages[i - 1].output
        /\ Len(PipelineStages) >= 2 =>
              PipelineStages[2].output =
                  IF PipelineStages[2].seen.lightness_remap
                  THEN Append(PipelineStages[2].input, "clahe_lightness")
                  ELSE PipelineStages[2].input
        /\ pc = "returned" =>
              /\ Len(PipelineStages) = 3
              /\ PipelineStages[3].output = Append(PipelineStages[3].input, "dither_array_fast")
              /\ cimg = PipelineStages[3].output

\* convert_array has returned after a lightness remap that ran
C11_Witness ==
    /\ pc = "returned"
    /\ ccall.entry = "convert_array"
    /\ cimg = <<"resize_image", "apply_illuminant", "clahe_lightness", "dither_array_fast">>

ClampedFields == {"gamut_strength", "illuminant_red", "illuminant_yellow", "illuminant_white", "csf_chroma_weight", "error_clamp", "red_penalty", "yellow_penalty", "lightness_clip_limit"}
RangeOf(name) ==
    IF name = "error_clamp" THEN <<0, 128>>
    ELSE IF name \in {"red_penalty", "yellow_penalty"} THEN <<0, 1000>>
    ELSE IF name = "lightness_clip_limit" THEN <<100, 400>>
    ELSE <<0, 100>>
InRange(name, value) == RangeOf(name)[1] <= value /\ value <= RangeOf(name)[2]

\* C12: whatever values the properties have been assigned, gamut_strength,
\* illuminant_red, illuminant_yellow, illuminant_white and csf_chroma_weight
\* are in [0, 1], error_clamp in [0, 128], red_penalty and yellow_penalty in
\* [0, 100], lightness_clip_limit in [1, 4]; and a value assigned that is
\* in the range of its property is stored as it is.
C12_FieldsInRange ==
    /\ \A f \in ClampedFields : InRange(f, converter[f])
    /\ (nsets > 0 /\ cset.name \in ClampedFields /\ InRange(cset.name, cset.value))
          => converter[cset.name] = cset.value

\* two assignments made: red_penalty = 25.5 stored as it is, then
\* error_clamp = 200 stored as 128
C12_Witness ==
    /\ nsets = 2
    /\ cset.name = "error_clamp"
    /\ cset.value = 200
    /\ converter.error_clamp = 128
    /\ converter.red_penalty = 255

\* C14: the reports convert_array and convert_array_gamut_only make to a
\* progress callback have non-decreasing values; when the entry point has
\* returned there are at least two and the last is ("完了", 1.0); and
\* convert_array_gamut_only never reports "ディザリング".
C14_ProgressReports ==
    (ccall.entry \in {"convert_array", "convert_array_gamut_only"} /\ ccall.progress) =>
        /\ \A i \in 2..Len(cprog) : cprog[i - 1][2] <= cprog[i][2]
        /\ pc = "returned" => (Len(cprog) >= 2 /\ cprog[Len(cprog)] = <<"done", 100>>)
        /\ ccall.entry = "convert_array_gamut_only" =>
              \A i \in 1..Len(cprog) : cprog[i][1] # "dithering"

\* convert_array has returned after its four reports
C14_Witness ==
    /\ pc = "returned"
    /\ ccall.entry = "convert_array"
    /\ cprog = << <<"resize", 10>>, <<"gamut mapping", 25>>, <<"dithering", 50>>, <<"done", 100>> >>

\* C16: every stage of one call of an entry point reads the values the
\* properties had when the entry point was called, also when properties
\* are assigned from another thread while the entry point runs.
C16_StagesSeeConfigOfCall ==
    \A i \in 1..Len(cstages) :
        \A f \in DOMAIN cstages[i].seen : cstages[i].seen[f] = ccall.config[f]

\* C18: a newly constructed ImageConverter has color_mode GRAYOUT,
\* error_clamp 85, red_penalty 10.0 and yellow_penalty 15.0.
C18_DefaultsOfNewConverter ==
    nsets = 0 =>
        /\ converter.color_mode = "Grayout"
        /\ converter.error_clamp = 85
        /\ converter.red_penalty = 100
        /\ converter.yellow_penalty = 150


(***************************************************************************)
(* OptimizerService.optimize.  The Optuna study runs its trials one after  *)
(* the other: before each trial it leaves the loop when study.stop() has   *)
(* been called or n_trials trials have run, then it calls the objective    *)
(* and, when the trial is complete, the callbacks.  The parameters the     *)
(* sampler suggests and the composite score of a trial are inputs here.    *)
(***************************************************************************)
MaxTrials == 3

\* the parameter sets a trial may be given, and the scores (in hundredths)
\* compute_composite_score may return
ParamChoices == {"enqueued", "sampled"}
Scores == {40, 70}

Event(ev, n) == [ev |-> ev, n |-> n]

\* a run of the pipeline, with the converter it runs on
PipelineEvent(ev, n, conv) == [ev |-> ev, n |-> n, config |-> conv]

\* the settings of the window's converter that the search does not vary
CallerSettings ==
    { [color_mode |-> m, use_lab_space |-> u, lightness_remap |-> r,
       lightness_clip_limit |-> cl] :
        m \in {"Illuminant", "Anti-Saturation"}, u \in BOOLEAN, r \in BOOLEAN,
        cl \in {200, 400} }

\* converter = ImageConverter(DitherService(), palette) in optimize: a new
\* converter, of which the settings below are read by convert_pre_resized
OptimizerConverter ==
    [color_mode |-> NewImageConverter.color_mode, params |-> "defaults",
     use_lab_space |-> NewImageConverter.use_lab_space,
     lightness_remap |-> NewImageConverter.lightness_remap,
     lightness_clip_limit |-> NewImageConverter.lightness_clip_limit]

\* _apply_converter_params: the colour mode and the eight searched settings
apply_converter_params(conv, params, color_mode) ==
    [conv EXCEPT !.color_mode = color_mode, !.params = params]

\* OptimizerWorker(service, source_image, spec, converter, initial_params,
\* n_trials).run(): optimize is called with converter.color_mode
InitOptimizer ==
    \E n_trials \in 1..MaxTrials, given \in BOOLEAN, caller \in CallerSettings :
        /\ pc = "loop"
        /\ converter = [NewImageConverter EXCEPT
                           !.color_mode = caller.color_mode,
                           !.use_lab_space = caller.use_lab_space,
                           !.lightness_remap = caller.lightness_remap,
                           !.lightness_clip_limit = caller.lightness_clip_limit]
        /\ study = [n_trials |-> n_trials, trials |-> <<>>, stop |-> FALSE, params |-> "none",
                    color_mode |-> caller.color_mode, converter |-> OptimizerConverter]
        /\ cancelled = [given |-> given, calls |-> 0]
        /\ olog = <<>>
        /\ oresult = "none"
        /\ DitherIdle
        /\ NearestIdle
        /\ GamutIdle
        /\ cset = "none" /\ nsets = 0 /\ ccall = [entry |-> "none"]
        /\ cimg = <<>> /\ cstages = <<>> /\ cprog = <<>>
        /\ ClaheIdle
        /\ WindowIdle

notOptimizerVars == <<ditherVars, nearestVars, gamutVars, converterVars, claheVars, windowVars>>

\* study.optimize: the next trial starts, objective asks for its parameters
TrialStart ==
    /\ pc = "loop"
    /\ ~study.stop
    /\ Len(study.trials) < study.n_trials
    /\ \E params \in ParamChoices : study' = [study EXCEPT !.params = params]
    /\ olog' = Append(olog, Event("trial start", Len(study.trials)))
    /\ pc' = "objective"
    /\ UNCHANGED <<cancelled, oresult, notOptimizerVars>>

\* evaluate: _apply_converter_params, then convert_pre_resized is called
Evaluate ==
    /\ pc = "objective"
    /\ study' = [study EXCEPT !.converter =
                     apply_converter_params(@, study.params, study.color_mode)]
    /\ olog' = Append(olog, PipelineEvent("pipeline begin", Len(study.trials),
                                          study'.converter))
    /\ pc' = "pipeline"
    /\ UNCHANGED <<cancelled, oresult, notOptimizerVars>>

\* convert_pre_resized returns the dithered image
PipelineReturn ==
    /\ pc = "pipeline"
    /\ olog' = Append(olog, Event("pipeline end", Len(study.trials)))
    /\ pc' = "score"
    /\ UNCHANGED <<study, cancelled, oresult, notOptimizerVars>>

\* reconvert_array and compute_composite_score: the objective returns and
\* the trial is complete
Score ==
    /\ pc = "score"
    /\ \E value \in Scores :
          study' = [study EXCEPT !.trials = Append(@, [number |-> Len(@), params |-> study.params, value |-> value])]
    /\ olog' = Append(olog, Event("trial complete", Len(study.trials)))
    /\ pc' = "callback"
    /\ UNCHANGED <<cancelled, oresult, notOptimizerVars>>

\* the stop flag that a cancellation leaves as it was
StopFlagIgnoringCancel(stop, given, answer) == stop

\* `if cancelled and cancelled(): study.stop()`
StopFlag(stop, given, answer) == stop \/ (given /\ answer)

\* callback(study, trial), called by the study after each complete trial
Callback ==
    /\ pc = "callback"
    /\ \E answer \in BOOLEAN :
          /\ ~cancelled.given => ~answer
          /\ study' = [study EXCEPT !.stop = StopFlag(@, cancelled.given, answer)]
          /\ cancelled' = [cancelled EXCEPT !.calls = IF cancelled.given THEN @ + 1 ELSE @]
          /\ olog' = IF cancelled.given
                     THEN Append(olog, Event("cancelled", IF answer THEN 1 ELSE 0))
                     ELSE olog
    /\ pc' = "loop"
    /\ UNCHANGED <<oresult, notOptimizerVars>>

\* the index of study.best_trial: the first trial of the greatest value
RECURSIVE BestIndex(_, _)
BestIndex(trials, k) ==
    IF k = 1 THEN 1
    ELSE IF trials[k].value > trials[BestIndex(trials, k - 1)].value THEN k
    ELSE BestIndex(trials, k - 1)

\* study.optimize returns; the best trial's parameters are evaluated again
FinalEvaluation ==
    /\ pc = "loop"
    /\ study.stop \/ Len(study.trials) >= study.n_trials
    /\ study' = [study EXCEPT !.converter =
                     apply_converter_params(@,
                         study.trials[BestIndex(study.trials, Len(study.trials))].params,
                         study.color_mode)]
    /\ olog' = olog \o << PipelineEvent("final pipeline begin", Len(study.trials),
                                        study'.converter),
                          Event("final pipeline end", Len(study.trials)) >>
    /\ pc' = "result"
    /\ UNCHANGED <<cancelled, oresult, notOptimizerVars>>

\* return OptimizeResult(best_params=..., best_score=best_trial.value, ...)
ReturnResult ==
    /\ pc = "result"
    /\ oresult' = [best_params |-> study.trials[BestIndex(study.trials, Len(study.trials))].params,
                   best_score |-> study.trials[BestIndex(study.trials, Len(study.trials))].value,
                   completed |-> Len(study.trials)]
    /\ pc' = "returned"
    /\ UNCHANGED <<study, cancelled, olog, notOptimizerVars>>

NextOptimizer ==
    \/ TrialStart \/ Evaluate \/ PipelineReturn \/ Score \/ Callback
    \/ FinalEvaluation \/ ReturnResult

SpecOptimizer == InitOptimizer /\ [][NextOptimizer]_vars

\* C13: optimize asks the cancelled callback only right after a trial is
\* complete, once per complete trial, never between the call and the return
\* of a pipeline run; after the callback has answered True no trial starts;
\* and optimize then still returns an OptimizeResult, made from the trials
\* that were completed: the score and the parameters of the best of them.
C13_CancelBetweenTrials ==
    /\ \A i \in 1..Len(olog) :
          olog[i].ev = "cancelled" => (i > 1 /\ olog[i - 1].ev = "trial complete")
    /\ \A i \in 1..Len(olog) : \A j \in (i + 1)..Len(olog) :
          (olog[i].ev = "cancelled" /\ olog[i].n = 1) => olog[j].ev # "trial start"
    /\ (cancelled.given /\ pc \in {"loop", "result", "returned"}) => cancelled.calls = Len(study.trials)
    /\ pc = "returned" =>
          /\ oresult.completed = Len(study.trials)
          /\ \A k \in 1..Len(study.trials) : study.trials[k].value <= oresult.best_score
          /\ \E k \in 1..Len(study.trials) :
                study.trials[k].value = oresult.best_score /\ study.trials[k].params = oresult.best_params

\* optimize was asked for three trials, was cancelled after the second and
\* has returned the best of the two
C13_Witness ==
    /\ pc = "returned"
    /\ study.n_trials = 3
    /\ Len(study.trials) = 2
    /\ cancelled.calls = 2
    /\ study.trials[1].value < study.trials[2].value
    /\ oresult.best_score = study.trials[2].value


\* C28: every trial optimize evaluates, and its final re-evaluation, runs
\* the pipeline with the caller's values of the settings that are not
\* searched: use_lab_space, lightness_remap and lightness_clip_limit.
C28_TrialsUseCallersSettings ==
    \A i \in 1..Len(olog) :
        olog[i].ev \in {"pipeline begin", "final pipeline begin"} =>
            /\ olog[i].config.color_mode = converter.color_mode
            /\ olog[i].config.use_lab_space = converter.use_lab_space
            /\ olog[i].config.lightness_remap = converter.lightness_remap
            /\ olog[i].config.lightness_clip_limit = converter.lightness_clip_limit

(***************************************************************************)
(* Further claims about dithering.                                         *)
(***************************************************************************)
\* C15: a call of dither_array_fast that is given a perceived palette
\* dithers the image: it diffuses the residual against the perceived colour
\* of the chosen index and returns an array in which every pixel is a
\* colour of the output palette.
C15_PerceivedPaletteDithers ==
    (cfg.perceived_palette.given /\ pc # "scan") =>
        /\ pc = "done"
        /\ DOMAIN result = DOMAIN rgb_array
        /\ \A j \in DOMAIN result : result[j] \in PaletteColors(cfg.palette)

\* floor(v + 0.5), clamped to [0, 255]
RoundHalfUpClamped(v) == Max(0, Min(255, (v + (SC \div 2)) \div SC))

\* v is half-way between two integers
IsTie(v) == (v + (SC \div 2)) % SC = 0

\* C17 as stated: the rounding of a working-buffer value inside the dither
\* loop is floor(v + 0.5) clamped to [0, 255], as the conversion of the
\* returned array is.
C17_LoopRoundsHalfUp ==
    (pc = "scan" /\ pos < cfg.w * cfg.h) =>
        \A c \in 1..3 : ClampRound(work[pos][c]) = RoundHalfUpClamped(work[pos][c])

\* C17 amended: the conversion of the returned array is floor(v + 0.5)
\* clamped to [0, 255]; the rounding of a working-buffer value inside the
\* dither loop is the same except at an exact .5, which goes to the even
\* neighbour (up or down), before the clamp.
C17_LoopRoundsHalfToEven ==
    /\ (pc = "scan" /\ pos < cfg.w * cfg.h) =>
          \A c \in 1..3 :
              ClampRound(work[pos][c]) =
                  IF IsTie(work[pos][c]) /\ ((work[pos][c] + (SC \div 2)) \div SC) % 2 = 1
                  THEN Max(0, Min(255, ((work[pos][c] + (SC \div 2)) \div SC) - 1))
                  ELSE RoundHalfUpClamped(work[pos][c])
    /\ (pc = "done" /\ cfg.algo = "fast") =>
          \A j \in DOMAIN result : \A c \in 1..3 : result[j][c] = RoundHalfUpClamped(work[j][c])

\* the loop is about to round 152.5, 0.5, 2.5, ...: a value at an exact .5
\* whose lower neighbour is even
C17_Witness ==
    /\ pc = "scan"
    /\ pos < cfg.w * cfg.h
    /\ \E c \in 1..3 :
          /\ IsTie(work[pos][c])
          /\ 0 < work[pos][c] /\ work[pos][c] < 255 * SC
          /\ ClampRound(work[pos][c]) = RoundHalfUpClamped(work[pos][c]) - 1


(***************************************************************************)
(* infrastructure/lightness_remap.py: _clahe_channel, as clahe_lightness   *)
(* calls it (value_min = 0.0, value_max = 100.0, n_bins = 256).            *)
(* L* values are in hundredths; scaled values and the entries of cdfs are  *)
(* in hundredths of a bin; clip_limit is in hundredths.  Histogram counts, *)
(* actual_clip, redistrib and the cdf are kept multiplied by HistScale, of *)
(* which they are all whole multiples.                                     *)
(***************************************************************************)
MaxGrid == 2

n_bins == 256
HistScale == 100 * n_bins * n_bins

\* int(round(num / den)) for num >= 0, den > 0: a tie goes to the even one
RoundRatio(num, den) ==
    IF 2 * (num % den) < den THEN num \div den
    ELSE IF 2 * (num % den) > den THEN (num \div den) + 1
    ELSE IF (num \div den) % 2 = 0 THEN num \div den ELSE (num \div den) + 1

\* y0 and y1 (or x0 and x1) of grid row (column) g, of `size` pixels
TileFrom(g, size, grid_size) == RoundRatio(g * size, grid_size)
TileTo(g, size, grid_size) == Max(RoundRatio((g + 1) * size, grid_size), TileFrom(g, size, grid_size) + 1)

\* scaled = np.clip((channel - value_min) / val_range * (n_bins - 1), 0, n_bins - 1)
Scaled(l) == Max(0, Min(100 * (n_bins - 1), (l * (n_bins - 1)) \div 100))

\* the pixels of scaled[y0:y1, x0:x1], as indices into the channel
Block(ch, gy, gx, grid_size) ==
    { k \in DOMAIN ch.pixels :
        /\ TileFrom(gy, ch.h, grid_size) <= k \div ch.w /\ k \div ch.w < TileTo(gy, ch.h, grid_size)
        /\ TileFrom(gx, ch.w, grid_size) <= k % ch.w /\ k % ch.w < TileTo(gx, ch.w, grid_size) }

\* np.clip(block.astype(np.int32), 0, n_bins - 1)
BinOf(l) == Max(0, Min(n_bins - 1, Scaled(l) \div 100))

\* hist[i], times HistScale
Hist(ch, block, i) == HistScale * Cardinality({ k \in block : BinOf(ch.pixels[k]) = i })

\* actual_clip = clip_limit * n_pixels / n_bins, times HistScale
ActualClip(clip_limit, n_pixels) == clip_limit * n_pixels * n_bins

\* the sum over the bins `bins` of f(hist[i]): of the excess over actual_clip
\* (part = "excess") or of the clipped count (part = "clipped")
RECURSIVE SumBins(_, _, _, _, _)
SumBins(ch, block, bins, ac, part) ==
    IF bins = {} THEN 0
    ELSE (IF part = "excess"
          THEN Max(0, Hist(ch, block, CHOOSE b \in bins : TRUE) - ac)
          ELSE Min(Hist(ch, block, CHOOSE b \in bins : TRUE), ac))
         + SumBins(ch, block, bins \ {CHOOSE b \in bins : TRUE}, ac, part)

\* the bins that hold a pixel of the block, up to bin k
BinsUpTo(ch, block, k) == { BinOf(ch.pixels[j]) : j \in block } \cap 0..k

\* redistrib = excess / n_bins, times HistScale
Redistrib(ch, block, ac) == SumBins(ch, block, BinsUpTo(ch, block, n_bins - 1), ac, "excess") \div n_bins

\* cdf[k] = np.cumsum(hist)[k] after the clipping and the redistribution
Cdf(ch, block, ac, k) == SumBins(ch, block, BinsUpTo(ch, block, k), ac, "clipped") + ((k + 1) * Redistrib(ch, block, ac))

\* cdf[cdf > 0].min() if np.any(cdf > 0) else 0.0: the cdf does not decrease
CdfMin(ch, block, ac) ==
    IF Cdf(ch, block, ac, n_bins - 1) <= 0 THEN 0
    ELSE Cdf(ch, block, ac, CHOOSE k \in 0..(n_bins - 1) : Cdf(ch, block, ac, k) > 0 /\ \A j \in 0..(k - 1) : Cdf(ch, block, ac, j) <= 0)

\* `if denom < 1.0` that never holds
IdentityFallbackNever(denom) == denom < 0

\* `if denom < 1.0`, denom times HistScale
IdentityFallback(denom) == denom < HistScale

\* cdfs[gy, gx, k] from the block, its actual_clip and its cdf_min
CdfsOfBlock(ch, block, ac, cdf_min, k) ==
    IF IdentityFallback((HistScale * Cardinality(block)) - cdf_min) THEN 100 * k
    ELSE Ratio(Cdf(ch, block, ac, k) - cdf_min, 100 * (n_bins - 1), (HistScale * Cardinality(block)) - cdf_min)

\* cdfs[gy, gx, k]
Cdfs(ch, clip_limit, grid_size, gy, gx, k) ==
    CdfsOfBlock(ch, Block(ch, gy, gx, grid_size), ActualClip(clip_limit, Cardinality(Block(ch, gy, gx, grid_size))),
                CdfMin(ch, Block(ch, gy, gx, grid_size), ActualClip(clip_limit, Cardinality(Block(ch, gy, gx, grid_size)))), k)

\* gy_f = (y + 0.5) / row_step - 0.5, times 2 * size
GridPos(y, size, grid_size) == ((2 * y + 1) * grid_size) - size
\* gy0 = int(np.floor(gy_f)) and fy = gy_f - gy0 (times 2 * size)
GridFloor(y, size, grid_size) == GridPos(y, size, grid_size) \div (2 * size)
GridFrac(y, size, grid_size) == GridPos(y, size, grid_size) % (2 * size)
\* max(0, min(grid_size - 1, g))
GridClamp(g, grid_size) == Max(0, Min(grid_size - 1, g))

\* idx = int(np.clip(val, 0, n_bins - 2))
IdxOf(val) == Max(0, Min(n_bins - 2, val \div 100))

\* v00 = cdfs[gy0, gx0, idx] * (1 - frac) + cdfs[gy0, gx0, idx + 1] * frac,
\* in ten-thousandths of a bin
Lerp(ch, clip_limit, grid_size, gy, gx, val) ==
    (Cdfs(ch, clip_limit, grid_size, gy, gx, IdxOf(val)) * (100 - (val - (100 * IdxOf(val)))))
    + (Cdfs(ch, clip_limit, grid_size, gy, gx, IdxOf(val) + 1) * (val - (100 * IdxOf(val))))

\* top = v00 * (1 - fx) + v01 * fx (or bot, in grid row gy), times 2 * w
Row(ch, clip_limit, grid_size, gy, x, val) ==
    (Lerp(ch, clip_limit, grid_size, gy, GridClamp(GridFloor(x, ch.w, grid_size), grid_size), val) * ((2 * ch.w) - GridFrac(x, ch.w, grid_size)))
    + (Lerp(ch, clip_limit, grid_size, gy, GridClamp(GridFloor(x, ch.w, grid_size) + 1, grid_size), val) * GridFrac(x, ch.w, grid_size))

\* mapped = top * (1 - fy) + bot * fy, times 4 * w * h
Mapped(ch, clip_limit, grid_size, y, x, val) ==
    (Row(ch, clip_limit, grid_size, GridClamp(GridFloor(y, ch.h, grid_size), grid_size), x, val) * ((2 * ch.h) - GridFrac(y, ch.h, grid_size)))
    + (Row(ch, clip_limit, grid_size, GridClamp(GridFloor(y, ch.h, grid_size) + 1, grid_size), x, val) * GridFrac(y, ch.h, grid_size))

\* _clahe_channel(channel, clip_limit, grid_size, 0.0, 100.0):
\* result[y, x] = mapped / (n_bins - 1) * val_range + value_min
clahe_channel(ch, clip_limit, grid_size) ==
    [k \in DOMAIN ch.pixels |->
        Ratio(Mapped(ch, clip_limit, grid_size, k \div ch.w, k % ch.w, Scaled(ch.pixels[k])), 1, (n_bins - 1) * 4 * ch.w * ch.h)]

\* L* values, clip limits
LValues == {0, 2000, 5000, 10000}
ClipLimits == {100, 200, 400}

InitClahe ==
    \E h \in 1..MaxH, w \in 1..MaxW, c1 \in LValues, c2 \in LValues :
        /\ pc = "call"
        /\ lchannel = [h |-> h, w |-> w,
                       pixels |-> [k \in 0..(w * h - 1) |-> IF ((k % w) + (k \div w)) % 2 = 0 THEN c1 ELSE c2]]
        /\ lcall = [op |-> "none"]
        /\ lresult = <<>>
        /\ DitherIdle
        /\ NearestIdle
        /\ GamutIdle
        /\ ConverterIdle
        /\ OptimizerIdle
        /\ WindowIdle

ClaheChannel ==
    /\ pc = "call"
    /\ \E clip_limit \in ClipLimits, grid_size \in 1..MaxGrid :
          /\ lcall' = [op |-> "_clahe_channel", clip_limit |-> clip_limit, grid_size |-> grid_size]
          /\ lresult' = clahe_channel(lchannel, clip_limit, grid_size)
    /\ pc' = "done"
    /\ UNCHANGED <<lchannel, ditherVars, nearestVars, gamutVars, converterVars, optimizerVars, windowVars>>

NextClahe == ClaheChannel

SpecClahe == InitClahe /\ [][NextClahe]_vars


\* every pixel of the channel has the same L*
UniformChannel(ch) == \A j \in DOMAIN ch.pixels : ch.pixels[j] = ch.pixels[0]

\* the greatest distance of cdfs[gy, gx, k] from k over the bins k, in
\* hundredths of a bin
TileDeviation(ch, block, ac, cdf_min) ==
    SetMax({ Abs(CdfsOfBlock(ch, block, ac, cdf_min, k) - (100 * k)) : k \in 0..(n_bins - 1) })
DeviationAt(ch, clip_limit, grid_size, gy, gx) ==
    TileDeviation(ch, Block(ch, gy, gx, grid_size), ActualClip(clip_limit, Cardinality(Block(ch, gy, gx, grid_size))),
                  CdfMin(ch, Block(ch, gy, gx, grid_size), ActualClip(clip_limit, Cardinality(Block(ch, gy, gx, grid_size)))))

----------------------------------------------------------------------------
\* The Grayout round trip

\* a chromatic pixel: its channels are not all equal
IsChromatic(rgb) == ~IsGray(rgb)

\* the hue of the pixel lies within the hue span of the palette, the arc of
\* h_range that begins at h_min
HueInSpan(rgb, palette) ==
    LET range == compute_palette_hsl_range(palette)
        h == rgb_to_hsl(rgb)[1]
    IN (h - range[1]) % Turn <= range[2]

Within5(a, b) == \A c \in 1..3 : Abs(a[c] - b[c]) <= 5

RoundTripCall ==
    /\ pc = "done"
    /\ gcall.op = "gamut_map, inverse_gamut_map"
    /\ gcall.strength > 0
    /\ IsChromatic(gcall.rgb_array)
    /\ HueInSpan(gcall.rgb_array, gcall.palette)

\* C20: for every chromatic pixel x whose hue lies within the palette's hue
\* span and every strength s in (0, 1], inverse_gamut_map(gamut_map(x, s), s)
\* with the same palette is x to within 5 (of 255) on every channel.
C20_RoundTripWithin5 ==
    RoundTripCall => (gerr = "none" /\ Within5(gout, gcall.rgb_array))

\* the round trip of the colour (180, 80, 20) at strength 0.7 has returned
C20_Witness ==
    /\ RoundTripCall
    /\ gcall.rgb_array = <<180, 80, 20>>
    /\ gcall.strength = 70
    /\ gcall.mapped = gout

(***************************************************************************)
(* The scan specification: one call of dither_array_fast, or one call of   *)
(* DitherService.dither_array (which hands the pixels and the palette to   *)
(* FloydSteinbergDither.dither), on images wide enough for a pixel to have *)
(* all four neighbours, with several clamps and chroma weights.            *)
(***************************************************************************)
MaxScanW == 3
MaxScanH == 2

ScanPixels == { <<115, 60, 0>>, <<240, 220, 220>>, <<20, 200, 90>> }
ScanErrorClamps == {0, 20, 85}
ScanCsfWeights == {0, 60, 100}
ScanPenaltyPairs == { <<0, 0>>, <<10, 30>> }

InitScan ==
    \E w \in 1..MaxScanW, h \in 1..MaxScanH, c1 \in ScanPixels, c2 \in ScanPixels,
       palette \in Palettes, algo \in {"fast", "fs"}, ec \in ScanErrorClamps,
       pp \in ScanPenaltyPairs, csf \in ScanCsfWeights :
        \* dither_array has the parameters error_clamp, red_penalty and
        \* yellow_penalty, and no csf_chroma_weight; it is called with the
        \* palette of two entries, which keeps the ciede2000 tables few
        /\ algo = "fs" => csf = 100 /\ w * h <= MaxFsPixels
        /\ algo = "fs" => palette = <<EINK_BLACK, EINK_WHITE>>
        /\ cfg = [w |-> w, h |-> h, palette |-> palette, algo |-> algo,
                  error_clamp |-> ec, red_penalty |-> pp[1],
                  red_penalty2 |-> pp[2], yellow_penalty |-> 0,
                  csf_chroma_weight |-> csf, perceived_palette |-> NoPalette]
        /\ rgb_array = [k \in 0..(w * h - 1) |->
                          IF ((k % w) + (k \div w)) % 2 = 0 THEN c1 ELSE c2]
        /\ work = AsFloat(rgb_array)
        /\ work2 = AsFloat(rgb_array)
        /\ pos = 0
        /\ pc = "scan"
        /\ result = <<>>
        /\ result2 = <<>>
        /\ NearestIdle
        /\ GamutIdle
        /\ LaterIdle

NextScan == DitherFastPixel \/ DitherFsPixel \/ DitherReturn

SpecScan == InitScan /\ [][NextScan]_vars

\* a step of the scan: the pixel at pos is resolved
ScanStep == pc = "scan" /\ pos' = pos + 1
FastStep == ScanStep /\ cfg.algo = "fast"

\* what the step added to pixel j of the working buffer
Increment(j) == [c \in 1..3 |-> work'[j][c] - work[j][c]]

\* old - new of the pixel the step resolves
RawResidual == [c \in 1..3 |-> work[pos][c] - work'[pos][c]]

\* the sixteenths pixel j gets from pixel k in an image of width w: 7 for
\* (x+1, y), 3 for (x-1, y+1), 5 for (x, y+1), 1 for (x+1, y+1), else none
NeighbourWeight(k, j, w) ==
    LET dx == (j % w) - (k % w)
        dy == (j \div w) - (k \div w)
    IN IF dy = 0 /\ dx = 1 THEN 7
       ELSE IF dy = 1 /\ dx = -1 THEN 3
       ELSE IF dy = 1 /\ dx = 0 THEN 5
       ELSE IF dy = 1 /\ dx = 1 THEN 1
       ELSE 0

\* the rounding of the fixed-point arithmetic: 2^-12 of a channel unit
Ulp == SC \div 4096

\* C21: during the scan the diffusion from a pixel writes only to its right,
\* below-left, below and below-right neighbours inside the image, none of
\* them visited yet; a resolved pixel is never written again, so the image
\* returned consists of exactly the palette colours written during the scan.
C21_ResolvedPixelsNeverRewritten ==
    /\ [][ScanStep =>
            /\ \E i \in 1..Len(cfg.palette) :
                  work'[pos] = [c \in 1..3 |-> cfg.palette[i][c] * SC]
            /\ \A j \in DOMAIN work :
                  /\ j < pos => work'[j] = work[j]
                  /\ (j # pos /\ work'[j] # work[j])
                        => (j > pos /\ NeighbourWeight(pos, j, cfg.w) > 0)]_vars
    /\ [](pc = "done" =>
            \A j \in DOMAIN result :
               /\ result[j] \in PaletteColors(cfg.palette)
               /\ work[j] = [c \in 1..3 |-> result[j][c] * SC])

\* a 3x2 image has been dithered by dither_array_fast into something else
C21_Witness ==
    /\ pc = "done"
    /\ cfg.algo = "fast"
    /\ cfg.w = 3 /\ cfg.h = 2
    /\ result # rgb_array

\* a residual with every channel brought into [-limit, limit] channel units
Limited(e, limit) ==
    [c \in 1..3 |-> IF e[c] > limit * SC THEN limit * SC
                    ELSE IF e[c] < -limit * SC THEN -limit * SC ELSE e[c]]

\* C22: in dither_array_fast with error_clamp = c > 0 each channel of the
\* residual is clamped to [-c, c] before the CSF weighting and before the
\* diffusion, so no neighbour receives more than its weight times c per
\* channel from one pixel; with error_clamp = 0 the residual is diffused
\* unclamped.
C22_ResidualClampedBeforeDiffusion ==
    [][FastStep =>
         \A j \in DOMAIN work \ {pos} :
            LET sixteenths == NeighbourWeight(pos, j, cfg.w)
                c == cfg.error_clamp
            IN /\ c > 0 =>
                    /\ Increment(j) = Share(CsfWeight(Limited(RawResidual, c),
                                                      cfg.csf_chroma_weight),
                                            sixteenths)
                    /\ \A ch \in 1..3 :
                          16 * Abs(Increment(j)[ch]) <= sixteenths * c * SC + Ulp
               /\ c = 0 =>
                    Increment(j) = Share(CsfWeight(RawResidual, cfg.csf_chroma_weight),
                                         sixteenths)]_vars

\* the first pixel of a row of at least two had a residual beyond the clamp
\* of 20, and its right neighbour has received its share
C22_Witness ==
    /\ pc = "scan"
    /\ cfg.algo = "fast"
    /\ cfg.error_clamp = 20
    /\ cfg.csf_chroma_weight = 60
    /\ cfg.w >= 2
    /\ pos = 1
    /\ \E ch \in 1..3 : Abs(rgb_array[0][ch] * SC - work[0][ch]) > 20 * SC
    /\ work[1] # AsFloat(rgb_array)[1]

\* the BT.709 luma 0.2126 eR + 0.7152 eG + 0.0722 eB of a residual
Luma(e) == MulDiv(e[1], 2126, 10000) + MulDiv(e[2], 7152, 10000) + MulDiv(e[3], 722, 10000)

\* Y + w (e - Y) per channel, w in hundredths
TowardsLuma(e, w) == [c \in 1..3 |-> Luma(e) + MulDiv(e[c] - Luma(e), w, 100)]

\* C23: the CSF weighting of dither_array_fast maps a residual e to
\* Y + w (e - Y) per channel, Y being its BT.709 luma and w the
\* csf_chroma_weight: with w = 0 the three channels diffused are all Y, and
\* with w = 1 the residual diffused is e itself.
C23_CsfWeightingTowardsLuma ==
    [][FastStep =>
         LET e == IF cfg.error_clamp > 0
                  THEN Limited(RawResidual, cfg.error_clamp) ELSE RawResidual
             w == cfg.csf_chroma_weight
         IN \A j \in DOMAIN work \ {pos} :
               LET sixteenths == NeighbourWeight(pos, j, cfg.w)
                   got == Increment(j)
               IN /\ \A ch \in 1..3 :
                        Abs(16 * got[ch] - sixteenths * TowardsLuma(e, w)[ch])
                            <= 16 * Ulp
                  /\ w = 0 => \A ch \in 1..3 :
                        Abs(16 * got[ch] - sixteenths * Luma(e)) <= 16 * Ulp
                  /\ w = 100 => got = Share(e, sixteenths)]_vars

\* with csf_chroma_weight 0 the first pixel's residual, whose channels
\* differ, has reached its right neighbour as three equal shares
C23_Witness ==
    /\ pc = "scan"
    /\ cfg.algo = "fast"
    /\ cfg.csf_chroma_weight = 0
    /\ cfg.error_clamp = 0
    /\ cfg.w >= 2
    /\ pos = 1
    /\ rgb_array[0][1] * SC - work[0][1] # rgb_array[0][2] * SC - work[0][2]
    /\ work[1][1] - rgb_array[1][1] * SC = work[1][2] - rgb_array[1][2] * SC
    /\ work[1][2] - rgb_array[1][2] * SC = work[1][3] - rgb_array[1][3] * SC
    /\ work[1][1] # rgb_array[1][1] * SC

\* the residual a step diffuses: clamped and weighted in dither_array_fast,
\* as it is in FloydSteinbergDither.dither
DiffusedResidual ==
    IF cfg.algo = "fast"
    THEN CsfWeight(ClampErr(RawResidual, cfg.error_clamp), cfg.csf_chroma_weight)
    ELSE RawResidual

\* pixel k has its right, below-left, below and below-right neighbours
HasFourNeighbours(k, w, h) ==
    /\ (k % w) - 1 >= 0
    /\ (k % w) + 1 < w
    /\ (k \div w) + 1 < h

\* C24: the four contributions of a pixel whose four neighbours are inside
\* the image, with weights 7/16, 3/16, 5/16 and 1/16, sum to the residual
\* diffused; at the left, right or bottom edge the share of a neighbour
\* outside the image is dropped, the others keeping their own weights.
C24_SharesSumToResidual ==
    [][ScanStep =>
         LET e == DiffusedResidual
             w == cfg.w
         IN /\ \A j \in DOMAIN work \ {pos} :
                  Increment(j) = Share(e, NeighbourWeight(pos, j, w))
            /\ HasFourNeighbours(pos, w, cfg.h) =>
                  \A ch \in 1..3 :
                     LET total == Increment(pos + 1)[ch] + Increment(pos + w - 1)[ch]
                                    + Increment(pos + w)[ch] + Increment(pos + w + 1)[ch]
                     IN /\ Abs(total - e[ch]) <= Ulp
                        /\ e[ch] % 16 = 0 => total = e[ch]]_vars

\* the middle pixel of the upper row of a 3x2 image has been resolved and
\* the pixel below it to the right has received its sixteenth
C24_Witness ==
    /\ pc = "scan"
    /\ cfg.w = 3 /\ cfg.h = 2
    /\ pos = 2
    /\ HasFourNeighbours(1, cfg.w, cfg.h)
    /\ work[5] # AsFloat(rgb_array)[5]

\* C26: DitherService.dither_array honours its error_clamp argument as
\* dither_array_fast does: with error_clamp = c > 0 no neighbour receives
\* more than its weight times c per channel from one pixel.
C26_DitherArrayClampsResidual ==
    [][(ScanStep /\ cfg.algo = "fs" /\ cfg.error_clamp > 0) =>
         \A j \in DOMAIN work \ {pos} : \A ch \in 1..3 :
            16 * Abs(Increment(j)[ch])
               <= NeighbourWeight(pos, j, cfg.w) * cfg.error_clamp * SC + Ulp]_vars

\* the error pixel j has accumulated so far, per channel
Accumulated(j) == [c \in 1..3 |-> work[j][c] - rgb_array[j][c] * SC]

\* C27: in dither_array_fast with error_clamp = c > 0 and csf_chroma_weight
\* in [0, 1], the error a pixel has accumulated from its visited neighbours
\* when it is visited is at most c in magnitude per channel, so its
\* working-buffer value lies in [-c, 255 + c].
C27_AccumulatedErrorWithinClamp ==
    (pc = "scan" /\ cfg.algo = "fast" /\ cfg.error_clamp > 0) =>
        \A j \in DOMAIN work : j >= pos =>
            \A ch \in 1..3 :
               /\ Abs(Accumulated(j)[ch]) <= cfg.error_clamp * SC + Ulp
               /\ work[j][ch] >= -cfg.error_clamp * SC - Ulp
               /\ work[j][ch] <= (255 + cfg.error_clamp) * SC + Ulp

\* the lower middle pixel of a 3x2 image is about to be visited with the
\* shares of its four visited neighbours, which come to more than 15 of
\* the 20 the clamp allows
C27_Witness ==
    /\ pc = "scan"
    /\ cfg.algo = "fast"
    /\ cfg.error_clamp = 20
    /\ cfg.w = 3 /\ cfg.h = 2
    /\ pos = 4
    /\ \E ch \in 1..3 : Abs(Accumulated(4)[ch]) > 15 * SC

(***************************************************************************)
(* presentation/main_window.py: MainWindow, its buttons and its workers.   *)
(* An image is named by a number: 0 is None, and every image loaded or     *)
(* rotated gets the next number.  A result is named by the number of the   *)
(* source image it was computed from.  A worker runs from the start() of   *)
(* its handler until the slot of its finished or error signal has run; a   *)
(* click on a disabled button reaches no handler, while File > Open and a  *)
(* drop on a viewer are always possible.                                   *)
(***************************************************************************)
MaxImages == 2
MaxJobs == 3

Buttons == {"convert", "gamut_only", "rotate", "save", "reconvert", "optimize"}

\* set_convert_enabled(value) and its like, for the buttons named
SetEnabled(enabled, names, value) ==
    [b \in Buttons |-> IF b \in names THEN value ELSE enabled[b]]

\* MainWindow.__init__ and _setup_ui
NewMainWindow ==
    [source_image |-> 0, result_image |-> 0, reconvert_image |-> 0,
     images |-> 0, started |-> 0, jobs |-> <<>>, params |-> "panel",
     enabled |-> [b \in Buttons |-> FALSE]]

InitWindow ==
    /\ pc = "window"
    /\ window = NewMainWindow
    /\ DitherIdle
    /\ NearestIdle
    /\ GamutIdle
    /\ ConverterIdle
    /\ OptimizerIdle
    /\ ClaheIdle

notWindowVars == <<pc, ditherVars, nearestVars, gamutVars, converterVars, optimizerVars, claheVars>>

\* worker.start() of a new worker of the kind, holding the image
Started(win, kind, image) ==
    [win EXCEPT !.jobs = Append(@, [kind |-> kind, image |-> image]),
                !.started = @ + 1]

\* the worker at index i has emitted its signal and its slot has run
Ended(win, i) ==
    [win EXCEPT !.jobs = [k \in 1..(Len(@) - 1) |-> IF k < i THEN @[k] ELSE @[k + 1]]]

\* _on_open with a path chosen, _on_image_dropped: _load_image(path)
OnLoadImage ==
    /\ pc = "window"
    /\ window.images < MaxImages
    /\ \E loaded \in BOOLEAN :
          window' =
             IF loaded
             THEN [window EXCEPT
                     !.images = @ + 1,
                     !.source_image = window.images + 1,
                     !.result_image = 0,
                     !.reconvert_image = 0,
                     !.enabled = SetEnabled(
                                   SetEnabled(@, {"convert", "gamut_only", "rotate", "optimize"}, TRUE),
                                   {"save", "reconvert"}, FALSE)]
             \* load_image raised: a message box, nothing else
             ELSE [window EXCEPT !.images = @ + 1]
    /\ UNCHANGED notWindowVars

\* _on_rotate
OnRotate ==
    /\ pc = "window"
    /\ window.enabled["rotate"]
    /\ window.source_image # 0
    /\ window.images < MaxImages
    /\ window' = [window EXCEPT
                    !.images = @ + 1,
                    !.source_image = window.images + 1,
                    !.result_image = 0,
                    !.reconvert_image = 0,
                    !.enabled = SetEnabled(@, {"save", "reconvert"}, FALSE)]
    /\ UNCHANGED notWindowVars

\* _start_conversion(gamut_only)
StartConversion(button) ==
    /\ pc = "window"
    /\ window.enabled[button]
    /\ window.source_image # 0
    /\ window.started < MaxJobs
    /\ window' = Started([window EXCEPT
                            !.enabled = SetEnabled(@, {"convert", "gamut_only", "rotate", "reconvert"}, FALSE)],
                         "convert", window.source_image)
    /\ UNCHANGED notWindowVars

\* _on_convert
OnConvert == StartConversion("convert")

\* _on_gamut_only
OnGamutOnly == StartConversion("gamut_only")

\* _on_convert_done(result)
OnConvertDone ==
    /\ pc = "window"
    /\ \E i \in 1..Len(window.jobs) :
          /\ window.jobs[i].kind = "convert"
          /\ window' = Ended([window EXCEPT
                                !.result_image = window.jobs[i].image,
                                !.reconvert_image = 0,
                                !.enabled = SetEnabled(@, {"convert", "gamut_only", "rotate", "save", "reconvert"}, TRUE)],
                             i)
    /\ UNCHANGED notWindowVars

\* _on_convert_error(message)
OnConvertError ==
    /\ pc = "window"
    /\ \E i \in 1..Len(window.jobs) :
          /\ window.jobs[i].kind = "convert"
          /\ window' = Ended([window EXCEPT
                                !.enabled = SetEnabled(@, {"convert", "gamut_only", "rotate"}, TRUE)],
                             i)
    /\ UNCHANGED notWindowVars

\* _on_reconvert
OnReconvert ==
    /\ pc = "window"
    /\ window.enabled["reconvert"]
    /\ window.result_image # 0
    /\ window.started < MaxJobs
    /\ window' = Started([window EXCEPT
                            !.enabled = SetEnabled(@, {"reconvert", "convert", "gamut_only"}, FALSE)],
                         "reconvert", window.result_image)
    /\ UNCHANGED notWindowVars

\* _on_reconvert_done(result)
OnReconvertDone ==
    /\ pc = "window"
    /\ \E i \in 1..Len(window.jobs) :
          /\ window.jobs[i].kind = "reconvert"
          /\ window' = Ended([window EXCEPT
                                !.reconvert_image = window.jobs[i].image,
                                !.enabled = SetEnabled(@, {"reconvert", "convert", "gamut_only"}, TRUE)],
                             i)
    /\ UNCHANGED notWindowVars

\* _on_reconvert_error(message)
OnReconvertError ==
    /\ pc = "window"
    /\ \E i \in 1..Len(window.jobs) :
          /\ window.jobs[i].kind = "reconvert"
          /\ window' = Ended([window EXCEPT
                                !.enabled = SetEnabled(@, {"reconvert", "convert", "gamut_only"}, TRUE)],
                             i)
    /\ UNCHANGED notWindowVars

\* _on_optimize
OnOptimize ==
    /\ pc = "window"
    /\ window.enabled["optimize"]
    /\ window.source_image # 0
    /\ window.started < MaxJobs
    /\ window' = Started([window EXCEPT
                            !.enabled = SetEnabled(@, {"convert", "gamut_only", "rotate", "reconvert", "optimize"}, FALSE)],
                         "optimize", window.source_image)
    /\ UNCHANGED notWindowVars

\* the buttons after _on_optimize_done and after _on_optimize_error
AfterOptimize(win) ==
    [win EXCEPT
       !.enabled = SetEnabled(@, {"convert", "gamut_only", "rotate", "optimize"}
                                   \cup (IF win.result_image # 0 THEN {"reconvert"} ELSE {}),
                              TRUE)]

\* _on_optimize_done(result): set_params(best_params), then the buttons
OnOptimizeDone ==
    /\ pc = "window"
    /\ \E i \in 1..Len(window.jobs) :
          /\ window.jobs[i].kind = "optimize"
          /\ window' = Ended(AfterOptimize([window EXCEPT !.params = "best_params"]), i)
    /\ UNCHANGED notWindowVars

\* _on_optimize_error(message)
OnOptimizeError ==
    /\ pc = "window"
    /\ \E i \in 1..Len(window.jobs) :
          /\ window.jobs[i].kind = "optimize"
          /\ window' = Ended(AfterOptimize(window), i)
    /\ UNCHANGED notWindowVars

NextWindow ==
    \/ OnLoadImage \/ OnRotate \/ OnConvert \/ OnGamutOnly
    \/ OnConvertDone \/ OnConvertError
    \/ OnReconvert \/ OnReconvertDone \/ OnReconvertError
    \/ OnOptimize \/ OnOptimizeDone \/ OnOptimizeError

SpecWindow == InitWindow /\ [][NextWindow]_vars

\* C29: at most one background job (ConvertWorker, ReconvertWorker or
\* OptimizerWorker) is running at any time: from the start of a job until
\* its finished or error signal is handled, no user action starts another.
C29_AtMostOneJob == pc = "window" => Len(window.jobs) <= 1

\* C30: whenever _result_image is not None it was computed from the current
\* _source_image, and Save and Reconvert are enabled only then.
C30_ResultOfCurrentSource ==
    pc = "window" =>
        /\ window.result_image # 0 => window.result_image = window.source_image
        /\ (window.enabled["save"] \/ window.enabled["reconvert"])
              => (window.result_image # 0 /\ window.result_image = window.source_image)

====
